---- MODULE Spec2Model ----
(***************************************************************************)
(* Model of the spellcheck plugin's text extraction (lexicalParser.ts), of *)
(* the fix endpoint (fix.ts) and of the bulk scan (bulk.ts).               *)
(*                                                                         *)
(* A JavaScript string is a sequence of one-character strings; offsets are *)
(* 0-based as in the source.  A live object reference (segment.source) is  *)
(* the path of the object inside the document, and an in-place mutation is *)
(* the document with the value at that path replaced.                      *)
(*                                                                         *)
(* Spec is the fix endpoint handling one request on a stored document.     *)
(* SpecClosest, SpecMapper, SpecExtract and SpecWalker apply               *)
(* findClosestMatch, applyFixAtOffset, extractAllTextFromDocWithSources    *)
(* and extractTextFromLexical to inputs drawn from bounded sets.  SpecBulk *)
(* is the bulk and status endpoints with the scans they start.             *)
(***************************************************************************)
EXTENDS Integers, Sequences, FiniteSets, TLC

VARIABLES doc, before, pc, req, resp, updates, loc, input, output,
          jobs, currentJob, scans, now, ticks, http, calls,
          records, dictionary, cachedWords, cacheTimestamp, invalidations, tasks, wire

vars ==
  <<doc, before, pc, req, resp, updates, loc, input, output,
    jobs, currentJob, scans, now, ticks, http, calls,
    records, dictionary, cachedWords, cacheTimestamp, invalidations, tasks, wire>>

\* the variables of the fix endpoint and of the functions applied on their own
fixVars == <<doc, before, pc, req, resp, updates, loc, input, output>>

\* the variables of the bulk scan
bulkVars == <<jobs, currentJob, scans, now, ticks, http, calls>>

\* the variables of the stored results and of the dictionary
storeVars == <<records, dictionary, cachedWords, cacheTimestamp, invalidations, tasks, wire>>

\* ------------------------------------------------------------------------
\* JavaScript string primitives
\* ------------------------------------------------------------------------

Max(a, b) == IF a > b THEN a ELSE b

Min(a, b) == IF a < b THEN a ELSE b

Abs(n) == IF n < 0 THEN -n ELSE n

\* The white space String.prototype.trim removes, within the model's alphabet.
WhiteSpace == {" ", "\n"}

\* String.prototype.slice(a, b): negative indices count from the end.
Slice(s, a, b) ==
  LET len  == Len(s)
      from == IF a < 0 THEN Max(len + a, 0) ELSE Min(a, len)
      to   == IF b < 0 THEN Max(len + b, 0) ELSE Min(b, len)
  IN  IF to > from THEN SubSeq(s, from + 1, to) ELSE <<>>

\* String.prototype.slice(a)
SliceFrom(s, a) == Slice(s, a, Len(s))

\* Number of leading white-space characters of s.
RECURSIVE LeadingWS(_)
LeadingWS(s) ==
  IF s = <<>> THEN 0
  ELSE IF Head(s) \in WhiteSpace THEN 1 + LeadingWS(Tail(s)) ELSE 0

\* Number of trailing white-space characters of s.
RECURSIVE TrailingWS(_)
TrailingWS(s) ==
  IF s = <<>> THEN 0
  ELSE IF s[Len(s)] \in WhiteSpace THEN 1 + TrailingWS(SubSeq(s, 1, Len(s) - 1)) ELSE 0

\* String.prototype.trimStart()
TrimStart(s) == SubSeq(s, LeadingWS(s) + 1, Len(s))

\* String.prototype.trim()
Trim(s) ==
  LET t == TrimStart(s) IN SubSeq(t, 1, Len(t) - TrailingWS(t))

\* needle occurs in s at 0-based index i
MatchAt(s, needle, i) ==
  /\ i >= 0
  /\ i + Len(needle) <= Len(s)
  /\ SubSeq(s, i + 1, i + Len(needle)) = needle

\* String.prototype.indexOf(needle, from); -1 when there is none.
RECURSIVE IndexOf(_, _, _)
IndexOf(s, needle, from) ==
  LET i == Max(from, 0)
  IN  IF i + Len(needle) > Len(s) THEN -1
      ELSE IF MatchAt(s, needle, i) THEN i
      ELSE IndexOf(s, needle, i + 1)

\* String.prototype.includes(needle)
Includes(s, needle) == IndexOf(s, needle, 0) >= 0

\* String.prototype.replace(original, replacement) with a string pattern:
\* the first occurrence only.  (The alphabet holds no "$", so no special
\* replacement pattern arises.)
ReplaceFirst(s, original, replacement) ==
  LET i == IndexOf(s, original, 0)
  IN  IF i < 0 THEN s
      ELSE SubSeq(s, 1, i) \o replacement \o SubSeq(s, i + Len(original) + 1, Len(s))

\* Array.prototype.join("\n") of a list of strings
RECURSIVE JoinNL(_)
JoinNL(ts) ==
  IF ts = <<>> THEN <<>>
  ELSE IF Len(ts) = 1 THEN ts[1]
  ELSE ts[1] \o <<"\n">> \o JoinNL(Tail(ts))

\* ------------------------------------------------------------------------
\* Lexical nodes (shared.ts)
\* ------------------------------------------------------------------------

\* A value met where a LexicalNode is expected.  kind "nil" is null/undefined,
\* kind "arr" an array whose items are in children, kind "obj" an object,
\* kind "scalar" a truthy number, string or boolean:
\* type "" is an absent type, hasText is typeof node.text === 'string',
\* children <<>> an absent or empty children array, root <<>> an absent root
\* and <<n>> the root n.  notIterable says that node.children is a truthy
\* value that is no array and cannot be iterated (a number, a plain object);
\* the documents the fix handler is given hold arrays there.
Node(type, hasText, text, children, root) ==
  [kind |-> "obj", type |-> type, hasText |-> hasText, text |-> text,
   children |-> children, root |-> root, notIterable |-> FALSE]

Nil == [kind |-> "nil", type |-> "", hasText |-> FALSE, text |-> <<>>,
        children |-> <<>>, root |-> <<>>, notIterable |-> FALSE]

Arr(items) == [kind |-> "arr", type |-> "", hasText |-> FALSE, text |-> <<>>,
               children |-> items, root |-> <<>>, notIterable |-> FALSE]

\* a number, string or boolean where a node is expected
Scalar == [kind |-> "scalar", type |-> "", hasText |-> FALSE, text |-> <<>>,
           children |-> <<>>, root |-> <<>>, notIterable |-> FALSE]

\* { type, children: 5 }: an object whose children cannot be iterated
NotIterable(type) ==
  [kind |-> "obj", type |-> type, hasText |-> FALSE, text |-> <<>>,
   children |-> <<>>, root |-> <<>>, notIterable |-> TRUE]

SKIP_TYPES == {"code", "code-block", "codeBlock"}

\* A faulty set of block types: a list item ends without a line break.
BlockTypesWithoutListitem == {"paragraph", "heading"}

BlockTypes == {"paragraph", "heading", "listitem"}

\* isLexicalJson(value) for a value of the node shape
isLexicalJson(v) ==
  /\ v.kind = "obj"
  /\ \/ (v.root # <<>> /\ v.root[1].kind \in {"obj", "arr"})
     \/ (v.children # <<>> /\ v.type # "")

\* ------------------------------------------------------------------------
\* Rich-text walker (lexicalParser.ts)
\* ------------------------------------------------------------------------

RECURSIVE extractRecursive(_, _, _), extractItems(_, _, _, _)

\* the loops "for (const child of ...) text += extractRecursive(child, depth + 1, maxDepth)"
extractItems(items, i, depth, maxDepth) ==
  IF i > Len(items) THEN <<>>
  ELSE extractRecursive(items[i], depth, maxDepth) \o extractItems(items, i + 1, depth, maxDepth)

\* The TypeError of "for (const child of node.children || [])" over a value
\* that cannot be iterated.  An exception leaves every enclosing call, so a
\* text that holds this mark stands for a call that threw.
TypeError == "TypeError"

Threw(text) == \E i \in 1..Len(text) : text[i] = TypeError

extractRecursive(node, depth, maxDepth) ==
  IF node.kind = "nil" \/ depth > maxDepth THEN <<>>
  ELSE IF node.kind # "obj" /\ node.kind # "arr" THEN <<>>
  ELSE IF node.kind = "obj" /\ node.type \in SKIP_TYPES THEN <<>>
  ELSE IF node.kind = "obj" /\ node.type \in BlockTypes /\ node.notIterable
  THEN <<TypeError>>
  ELSE
    \* an array holds its items in children and has neither type nor root
    (IF node.type = "text" /\ node.hasText THEN node.text ELSE <<>>)
    \o extractItems(node.children, 1, depth + 1, maxDepth)
    \o (IF node.type \in BlockTypes THEN <<"\n">>
        ELSE IF node.root # <<>> THEN extractRecursive(node.root[1], depth + 1, maxDepth)
        ELSE <<>>)

DefaultMaxDepth == 50

\* extractTextFromLexical(node, maxDepth)
extractTextFromLexicalTo(node, maxDepth) == Trim(extractRecursive(node, 0, maxDepth))

\* extractTextFromLexical(node), maxDepth taking its default
extractTextFromLexical(node) == extractTextFromLexicalTo(node, DefaultMaxDepth)

\* ------------------------------------------------------------------------
\* Documents
\* ------------------------------------------------------------------------

\* A value inside a layout block.  k "str" is a string s; k "obj" an object
\* whose entries e are <<[key, val], ...>> in Object.entries order; k "arr" an
\* array whose items are the vals of e (key ""); k "lex" an object that holds
\* rich text, n being that object as a node; k "other" a number, boolean or
\* null.  Rich-text values occur as values of object keys, and every object
\* of a document is reached by exactly one path (a document fetched from the
\* database is a tree), so the identity set `visited` never holds the object
\* at hand.
StrV(s) == [k |-> "str", s |-> s, e |-> <<>>, n |-> Nil]

ObjV(entries) == [k |-> "obj", s |-> <<>>, e |-> entries, n |-> Nil]

ArrV(items) ==
  [k |-> "arr", s |-> <<>>, e |-> [i \in 1..Len(items) |-> [key |-> "", val |-> items[i]]],
   n |-> Nil]

LexV(node) == [k |-> "lex", s |-> <<>>, e |-> <<>>, n |-> node]

OtherV == [k |-> "other", s |-> <<>>, e |-> <<>>, n |-> Nil]

Entry(key, val) == [key |-> key, val |-> val]

\* A document: title "" (<<>>) stands for an absent or empty title, hero is
\* doc.hero?.richText, content and body are rich-text fields (Nil when
\* absent), layout is an ArrV of blocks or OtherV when it is no array.
Doc(id, title, hero, content, body, layout) ==
  [id |-> id, title |-> title, hero |-> hero, content |-> content, body |-> body,
   layout |-> layout]

\* doc[field] for the fields a request's `field` names in the model
DocField(d, field) ==
  IF field = "content" THEN d.content
  ELSE IF field = "body" THEN d.body
  ELSE Nil

SetDocField(d, field, v) ==
  IF field = "content" THEN [d EXCEPT !.content = v]
  ELSE IF field = "body" THEN [d EXCEPT !.body = v]
  ELSE d

SKIP_KEYS ==
  {"id", "_order", "_parent_id", "_path", "_locale", "_uuid",
   "blockType", "blockName", "icon", "color", "link", "link_url",
   "enable_link", "image", "media", "form", "form_id", "rating",
   "size", "position", "relationTo", "value", "updatedAt", "createdAt",
   "_status", "slug", "meta", "publishedAt", "populatedAuthors"}

PLAIN_TEXT_KEYS ==
  {"title", "description", "heading", "subheading", "subtitle",
   "quote", "author", "role", "label", "link_label", "block_name",
   "caption", "alt", "text", "summary", "excerpt"}

\* ------------------------------------------------------------------------
\* Guards of extractBlockSegments on a plain string
\* ------------------------------------------------------------------------

PlainMinLength == 2

PlainMaxLength == 5000

BlockMaxDepth == 10

UuidLength == 36

Digits == {"0", "1", "2", "3", "4", "5", "6", "7", "8", "9"}

HexDash == Digits \cup {"a", "b", "c", "d", "e", "f", "-"}

\* the i flag of the first guard: the letters its alternatives mention
ToLower(c) ==
  CASE c = "A" -> "a" [] c = "B" -> "b" [] c = "C" -> "c" [] c = "D" -> "d"
    [] c = "E" -> "e" [] c = "F" -> "f" [] c = "H" -> "h" [] c = "I" -> "i"
    [] c = "L" -> "l" [] c = "M" -> "m" [] c = "O" -> "o" [] c = "P" -> "p"
    [] c = "S" -> "s" [] c = "T" -> "t" [] OTHER -> c

LowerStr(s) == [i \in 1..Len(s) |-> ToLower(s[i])]

HasPrefix(s, p) == Len(s) >= Len(p) /\ SubSeq(s, 1, Len(p)) = p

\* /^(https?:|\/|#|\d{4}-\d{2}|[0-9a-f-]{36}|data:|mailto:)/i
LooksLikeToken(value) ==
  LET v == LowerStr(value)
  IN  \/ HasPrefix(v, <<"h", "t", "t", "p", ":">>)
      \/ HasPrefix(v, <<"h", "t", "t", "p", "s", ":">>)
      \/ HasPrefix(v, <<"/">>)
      \/ HasPrefix(v, <<"#">>)
      \/ /\ Len(v) >= 7
         /\ \A i \in {1, 2, 3, 4, 6, 7} : v[i] \in Digits
         /\ v[5] = "-"
      \/ /\ Len(v) >= UuidLength
         /\ \A i \in 1..UuidLength : v[i] \in HexDash
      \/ HasPrefix(v, <<"d", "a", "t", "a", ":">>)
      \/ HasPrefix(v, <<"m", "a", "i", "l", "t", "o", ":">>)

\* /^\{.*\}$/ or /^\[.*\]$/ ("." matches no line terminator)
LooksLikeJson(value) ==
  /\ Len(value) >= 2
  /\ \/ (value[1] = "{" /\ value[Len(value)] = "}")
     \/ (value[1] = "[" /\ value[Len(value)] = "]")
  /\ \A i \in 2..(Len(value) - 1) : value[i] # "\n"

\* ------------------------------------------------------------------------
\* Segment extractor (lexicalParser.ts)
\* ------------------------------------------------------------------------

\* A TextSegment.  source.type is "title", "lexical" or "plain"; the live
\* reference is (topField, path): path <<>> is the top-level field itself, a
\* path into layout lists the entry indices from doc.layout down to the
\* rich-text value ("lexical") or to the parent object ("plain", with key).
Segment(text, type, topField, path, key) ==
  [text |-> text,
   source |-> [type |-> type, topField |-> topField, path |-> path, key |-> key]]

\* the plain-string test of extractBlockSegments on the entry (key, value)
IsPlainText(key, value) ==
  /\ value.k = "str"
  /\ Len(value.s) > PlainMinLength
  /\ Len(value.s) < PlainMaxLength
  /\ ~LooksLikeToken(value.s)
  /\ ~LooksLikeJson(value.s)
  /\ key \in PLAIN_TEXT_KEYS

\* the segments the body of the loop over Object.entries pushes for entry i
\* of the object obj itself (the recursion apart)
EntrySegments(obj, i, path, topField) ==
  IF obj.k = "arr" \/ obj.e[i].key \in SKIP_KEYS THEN <<>>
  ELSE IF obj.e[i].val.k = "lex" /\ isLexicalJson(obj.e[i].val.n)
    THEN <<Segment(extractTextFromLexical(obj.e[i].val.n), "lexical", topField,
                   path \o <<i>>, "")>>
  ELSE IF IsPlainText(obj.e[i].key, obj.e[i].val)
    THEN <<Segment(obj.e[i].val.s, "plain", topField, path, obj.e[i].key)>>
  ELSE <<>>

\* whether the loop recurses into item or entry i of obj
EntryRecurses(obj, i) ==
  \/ obj.k = "arr"
  \/ /\ obj.e[i].key \notin SKIP_KEYS
     /\ ~(obj.e[i].val.k = "lex" /\ isLexicalJson(obj.e[i].val.n))
     /\ obj.e[i].val.k \in {"obj", "arr"}

RECURSIVE extractBlockSegments(_, _, _, _), extractBlockEntries(_, _, _, _, _)

\* the loop over the items of an array, or over Object.entries(record)
extractBlockEntries(obj, i, path, topField, depth) ==
  IF i > Len(obj.e) THEN <<>>
  ELSE EntrySegments(obj, i, path, topField)
       \o (IF EntryRecurses(obj, i)
           THEN extractBlockSegments(obj.e[i].val, path \o <<i>>, topField, depth + 1)
           ELSE <<>>)
       \o extractBlockEntries(obj, i + 1, path, topField, depth)

extractBlockSegments(obj, path, topField, depth) ==
  IF obj.k \notin {"obj", "arr"} \/ depth > BlockMaxDepth THEN <<>>
  ELSE extractBlockEntries(obj, 1, path, topField, depth)

\* for (const block of doc.layout) extractBlockSegments(block, rawSegments, visited, 'layout')
RECURSIVE layoutSegments(_, _)
layoutSegments(layout, i) ==
  IF i > Len(layout.e) THEN <<>>
  ELSE extractBlockSegments(layout.e[i].val, <<i>>, "layout", 0)
       \o layoutSegments(layout, i + 1)

\* A faulty filter: every raw segment is kept.
FilterNothing(segs) == segs

\* rawSegments.filter((s) => Boolean(s.text))
RECURSIVE FilterNonEmpty(_)
FilterNonEmpty(segs) ==
  IF segs = <<>> THEN <<>>
  ELSE (IF Head(segs).text # <<>> THEN <<Head(segs)>> ELSE <<>>) \o FilterNonEmpty(Tail(segs))

SegTexts(segs) == [i \in 1..Len(segs) |-> segs[i].text]

\* the segments pushed before the filter, in push order
rawSegmentsOf(d, contentField) ==
  (IF d.title # <<>> THEN <<Segment(d.title, "title", "title", <<>>, "")>> ELSE <<>>)
  \o (IF d.hero.kind # "nil"
      THEN <<Segment(extractTextFromLexical(d.hero), "lexical", "hero", <<>>, "")>>
      ELSE <<>>)
  \o (IF DocField(d, contentField).kind # "nil" /\ isLexicalJson(DocField(d, contentField))
      THEN <<Segment(extractTextFromLexical(DocField(d, contentField)), "lexical",
                     contentField, <<>>, "")>>
      ELSE <<>>)
  \o (IF d.layout.k = "arr" THEN layoutSegments(d.layout, 1) ELSE <<>>)

\* Array.prototype.join("") of a list of strings
RECURSIVE JoinEmpty(_)
JoinEmpty(ts) == IF ts = <<>> THEN <<>> ELSE Head(ts) \o JoinEmpty(Tail(ts))

\* A faulty fullText: the segments joined without the separator.
ExtractedDocNoSeparator(segments) ==
  [fullText |-> Trim(JoinEmpty(SegTexts(segments))), segments |-> segments]

\* { fullText, segments } built from the filtered segments
ExtractedDoc(segments) ==
  [fullText |-> Trim(JoinNL(SegTexts(segments))), segments |-> segments]

extractAllTextFromDocWithSources(d, contentField) ==
  ExtractedDoc(FilterNonEmpty(rawSegmentsOf(d, contentField)))

\* ------------------------------------------------------------------------
\* Live references: reading and replacing the value at a path
\* ------------------------------------------------------------------------

RECURSIVE GetAt(_, _)
GetAt(v, path) ==
  IF path = <<>> THEN v ELSE GetAt(v.e[Head(path)].val, Tail(path))

RECURSIVE SetAt(_, _, _)
SetAt(v, path, w) ==
  IF path = <<>> THEN w
  ELSE [v EXCEPT !.e[Head(path)].val = SetAt(v.e[Head(path)].val, Tail(path), w)]

\* index of the entry of object v with the given key
KeyIndex(v, key) == CHOOSE i \in 1..Len(v.e) : v.e[i].key = key

\* source.data of a "lexical" source
SourceData(d, source) ==
  IF source.topField = "hero" THEN d.hero
  ELSE IF source.topField = "layout" THEN GetAt(d.layout, source.path).n
  ELSE DocField(d, source.topField)

\* the document after source.data was mutated into node
SetSourceData(d, source, node) ==
  IF source.topField = "hero" THEN [d EXCEPT !.hero = node]
  ELSE IF source.topField = "layout"
    THEN [d EXCEPT !.layout = SetAt(d.layout, source.path, LexV(node))]
  ELSE SetDocField(d, source.topField, node)

\* source.parent[source.key] of a "plain" source
SourcePlain(d, source) ==
  LET parent == GetAt(d.layout, source.path)
  IN  parent.e[KeyIndex(parent, source.key)].val.s

\* A faulty write of a plain source: the title receives the string as well.
SetSourcePlainAndTitle(d, source, str) ==
  LET parent == GetAt(d.layout, source.path)
  IN  [d EXCEPT !.layout =
         SetAt(d.layout, source.path \o <<KeyIndex(parent, source.key)>>, StrV(str)),
                !.title = str]

SetSourcePlain(d, source, str) ==
  LET parent == GetAt(d.layout, source.path)
  IN  [d EXCEPT !.layout =
         SetAt(d.layout, source.path \o <<KeyIndex(parent, source.key)>>, StrV(str))]

\* s.slice(0, at) + replacement + s.slice(at + length)
Splice(s, at, length, replacement) ==
  Slice(s, 0, at) \o replacement \o SliceFrom(s, at + length)

\* ------------------------------------------------------------------------
\* Offset-based fix (fix.ts)
\* ------------------------------------------------------------------------

\* The result of fixInLexicalTree: fixed and chars as in the source, node the
\* (possibly mutated) node.  hit and pos record where the splice was made: the
\* child indices from the walked node down to the text node (0 for a step
\* into root) and posInNode; writes counts the assignments to node.text.
FixResult(fixed, chars, node, hit, pos, writes) ==
  [fixed |-> fixed, chars |-> chars, node |-> node, hit |-> hit, pos |-> pos,
   writes |-> writes]

\* A faulty text-node branch: it splices and still reports fixed: false.
fixTextNodeUnreported(node, targetOffset, targetLength, replacement, currentPos) ==
  IF targetOffset >= currentPos /\ targetOffset < currentPos + Len(node.text)
  THEN FixResult(FALSE,
                 Len(Splice(node.text, targetOffset - currentPos, targetLength, replacement)),
                 [node EXCEPT !.text = Splice(node.text, targetOffset - currentPos,
                                              targetLength, replacement)],
                 <<>>, targetOffset - currentPos, 1)
  ELSE FixResult(FALSE, Len(node.text), node, <<>>, -1, 0)

\* the text-node branch of fixInLexicalTree
fixTextNode(node, targetOffset, targetLength, replacement, currentPos) ==
  IF targetOffset >= currentPos /\ targetOffset < currentPos + Len(node.text)
  THEN FixResult(TRUE,
                 Len(Splice(node.text, targetOffset - currentPos, targetLength, replacement)),
                 [node EXCEPT !.text = Splice(node.text, targetOffset - currentPos,
                                              targetLength, replacement)],
                 <<>>, targetOffset - currentPos, 1)
  ELSE FixResult(FALSE, Len(node.text), node, <<>>, -1, 0)

\* the return of fixInLexicalTree after the walk of node.root returned q,
\* the loop over the children having returned r
fixAfterRoot(node, r, q) ==
  FixResult(q.fixed, r.chars + q.chars,
            [node EXCEPT !.children = r.node, !.root = <<q.node>>],
            <<0>> \o q.hit, q.pos, r.writes + q.writes)

RECURSIVE fixInLexicalTree(_, _, _, _, _, _, _), fixItems(_, _, _, _, _, _, _, _, _, _),
          fixItemsStep(_, _, _, _, _, _, _, _, _, _, _), fixAfterChildren(_, _, _, _, _, _, _, _)

\* the loops over an array or over node.children, chars being the count
\* accumulated so far (writes, the assignments made so far); the result's
\* node is the list of items
fixItems(items, i, chars, writes, targetOffset, targetLength, replacement, currentPos, depth, maxDepth) ==
  IF i > Len(items) THEN FixResult(FALSE, chars, items, <<>>, -1, writes)
  ELSE fixItemsStep(items, i, chars, writes, targetOffset, targetLength, replacement,
                    currentPos, depth, maxDepth,
                    fixInLexicalTree(items[i], targetOffset, targetLength, replacement,
                                     currentPos + chars, depth, maxDepth))

\* the body of the loop once the walk of item i returned r: return at the
\* first item that was fixed
fixItemsStep(items, i, chars, writes, targetOffset, targetLength, replacement, currentPos, depth, maxDepth, r) ==
  IF r.fixed
  THEN FixResult(TRUE, chars + r.chars, [items EXCEPT ![i] = r.node], <<i>> \o r.hit,
                 r.pos, writes + r.writes)
  ELSE fixItems([items EXCEPT ![i] = r.node], i + 1, chars + r.chars, writes + r.writes,
                targetOffset, targetLength, replacement, currentPos, depth, maxDepth)

\* fixInLexicalTree on an array or on an object that is no text node, the
\* loop over its items or children having returned r
fixAfterChildren(node, targetOffset, targetLength, replacement, currentPos, depth, maxDepth, r) ==
  IF node.kind = "arr" THEN
    FixResult(r.fixed, r.chars, [node EXCEPT !.children = r.node], r.hit, r.pos, r.writes)
  ELSE IF node.type \in BlockTypes THEN
    FixResult(r.fixed, r.chars + 1, [node EXCEPT !.children = r.node], r.hit, r.pos, r.writes)
  ELSE IF r.fixed THEN
    FixResult(TRUE, r.chars, [node EXCEPT !.children = r.node], r.hit, r.pos, r.writes)
  ELSE IF node.root # <<>> THEN
    fixAfterRoot(node, r,
                 fixInLexicalTree(node.root[1], targetOffset, targetLength, replacement,
                                  currentPos + r.chars, depth + 1, maxDepth))
  ELSE FixResult(FALSE, r.chars, [node EXCEPT !.children = r.node], <<>>, -1, r.writes)

fixInLexicalTree(node, targetOffset, targetLength, replacement, currentPos, depth, maxDepth) ==
  IF node.kind = "nil" \/ depth > maxDepth THEN FixResult(FALSE, 0, node, <<>>, -1, 0)
  ELSE IF node.kind # "obj" /\ node.kind # "arr" THEN FixResult(FALSE, 0, node, <<>>, -1, 0)
  ELSE IF node.kind = "obj" /\ node.type \in SKIP_TYPES
    THEN FixResult(FALSE, 0, node, <<>>, -1, 0)
  ELSE IF node.kind = "obj" /\ node.type = "text" /\ node.hasText
    THEN fixTextNode(node, targetOffset, targetLength, replacement, currentPos)
  ELSE fixAfterChildren(node, targetOffset, targetLength, replacement, currentPos, depth,
                        maxDepth,
                        fixItems(node.children, 1, 0, 0, targetOffset, targetLength,
                                 replacement, currentPos, depth + 1, maxDepth))

\* The result of applyFixToSegment / applyFixAtOffset / legacyFixSubstring:
\* fixed and modifiedField ("" for null) as in the source, doc the document
\* object after the call, writes the number of string assignments made.
\* seg and localOffset record the segment applyFixAtOffset dispatched to (0
\* for none); hit and pos where fixInLexicalTree spliced.
ApplyResult(fixed, modifiedField, d, writes, seg, localOffset, hit, pos) ==
  [fixed |-> fixed, modifiedField |-> modifiedField, doc |-> d, writes |-> writes,
   seg |-> seg, localOffset |-> localOffset, hit |-> hit, pos |-> pos]

\* case 'lexical' of applyFixToSegment, fixInLexicalTree having returned r
applyLexicalResult(source, localOffset, docClone, r) ==
  ApplyResult(r.fixed, IF r.fixed THEN source.topField ELSE "",
              SetSourceData(docClone, source, r.node), r.writes, 0, localOffset,
              r.hit, r.pos)

applyFixToSegment(segment, localOffset, targetLength, replacement, docClone) ==
  IF segment.source.type = "title" THEN
    ApplyResult(TRUE, "title",
                [docClone EXCEPT !.title = Splice(docClone.title, localOffset,
                                                   targetLength, replacement)],
                1, 0, localOffset, <<>>, -1)
  ELSE IF segment.source.type = "lexical" THEN
    applyLexicalResult(segment.source, localOffset, docClone,
                       fixInLexicalTree(SourceData(docClone, segment.source), localOffset,
                                        targetLength, replacement, 0, 0, DefaultMaxDepth))
  ELSE
    ApplyResult(TRUE, segment.source.topField,
                SetSourcePlain(docClone, segment.source,
                               Splice(SourcePlain(docClone, segment.source), localOffset,
                                      targetLength, replacement)),
                1, 0, localOffset, <<>>, -1)

\* the loop of applyFixAtOffset from segment i on, pos being the running position
RECURSIVE applyFixAtOffsetFrom(_, _, _, _, _, _, _)
applyFixAtOffsetFrom(segments, i, pos, rawTargetOffset, targetLength, replacement, docClone) ==
  IF i > Len(segments) THEN ApplyResult(FALSE, "", docClone, 0, 0, -1, <<>>, -1)
  ELSE IF rawTargetOffset >= pos /\ rawTargetOffset < pos + Len(segments[i].text)
    THEN [applyFixToSegment(segments[i], rawTargetOffset - pos, targetLength,
                            replacement, docClone) EXCEPT !.seg = i]
  ELSE applyFixAtOffsetFrom(segments, i + 1, pos + Len(segments[i].text) + 1,
                            rawTargetOffset, targetLength, replacement, docClone)

\* A faulty trimOffset: the characters trim() removed are not added back.
TrimOffsetIgnored(rawJoined) == 0

\* trimOffset = rawJoined.length - rawJoined.trimStart().length
TrimOffsetOf(rawJoined) == Len(rawJoined) - Len(TrimStart(rawJoined))

\* rawJoined = segments.map((s) => s.text).join('\n'), and its trimOffset
TrimOffset(segments) == TrimOffsetOf(JoinNL(SegTexts(segments)))

applyFixAtOffset(segments, fullText, targetOffset, targetLength, replacement, docClone) ==
  applyFixAtOffsetFrom(segments, 1, 0, targetOffset + TrimOffset(segments), targetLength,
                       replacement, docClone)

\* ------------------------------------------------------------------------
\* Legacy fallback: substring-based fix (fix.ts)
\* ------------------------------------------------------------------------

\* The result of legacyApplyToLexical / legacyApplyInObject: ret the returned
\* boolean, node the (possibly mutated) value, done the value of state.done
\* after the call, writes the number of string assignments made.
LegacyResult(ret, node, done, writes) ==
  [ret |-> ret, node |-> node, done |-> done, writes |-> writes]

\* the return of legacyApplyToLexical after the call on node.root returned q,
\* the loop over the children having returned r
legacyAfterRoot(node, r, q) ==
  LegacyResult(q.ret, [node EXCEPT !.children = r.node, !.root = <<q.node>>], q.done,
               r.writes + q.writes)

RECURSIVE legacyApplyToLexical(_, _, _, _), legacyLexicalItems(_, _, _, _, _, _),
          legacyLexicalStep(_, _, _, _, _, _), legacyAfterChildren(_, _, _, _)

\* the loops "for (const item of ...) { if (state.done) break; if (legacy...) return true }"
legacyLexicalItems(items, i, original, replacement, done, writes) ==
  IF i > Len(items) \/ done THEN LegacyResult(FALSE, items, done, writes)
  ELSE legacyLexicalStep(items, i, original, replacement, writes,
                         legacyApplyToLexical(items[i], original, replacement, done))

\* the body of the loop once the call on item i returned r
legacyLexicalStep(items, i, original, replacement, writes, r) ==
  IF r.ret
  THEN LegacyResult(TRUE, [items EXCEPT ![i] = r.node], r.done, writes + r.writes)
  ELSE legacyLexicalItems([items EXCEPT ![i] = r.node], i + 1, original, replacement,
                          r.done, writes + r.writes)

\* legacyApplyToLexical on an array, or on an object past its text test, the
\* loop over its items or children having returned r
legacyAfterChildren(node, original, replacement, r) ==
  IF node.kind = "arr" \/ r.ret THEN
    LegacyResult(r.ret, [node EXCEPT !.children = r.node], r.done, r.writes)
  ELSE IF node.root # <<>> /\ ~r.done THEN
    legacyAfterRoot(node, r, legacyApplyToLexical(node.root[1], original, replacement, r.done))
  ELSE LegacyResult(FALSE, [node EXCEPT !.children = r.node], r.done, r.writes)

legacyApplyToLexical(node, original, replacement, done) ==
  IF node.kind = "nil" \/ done THEN LegacyResult(FALSE, node, done, 0)
  ELSE IF node.kind # "obj" /\ node.kind # "arr" THEN LegacyResult(FALSE, node, done, 0)
  ELSE IF /\ node.kind = "obj"
          /\ node.type = "text" /\ node.hasText
          /\ ~done /\ Includes(node.text, original)
    THEN LegacyResult(TRUE,
                      [node EXCEPT !.text = ReplaceFirst(node.text, original, replacement)],
                      TRUE, 1)
  ELSE legacyAfterChildren(node, original, replacement,
                           legacyLexicalItems(node.children, 1, original, replacement,
                                              done, 0))

\* v.root && typeof v.root === 'object' for an object value
HasRootObject(value) ==
  /\ value.k = "lex"
  /\ value.n.root # <<>>
  /\ value.n.root[1].kind \in {"obj", "arr"}

\* a result on a rich-text node as a result on the value that holds it
AsValue(r) == LegacyResult(r.ret, LexV(r.node), r.done, r.writes)

RECURSIVE legacyApplyInObject(_, _, _, _, _), legacyObjectEntries(_, _, _, _, _, _, _),
          legacyObjectStep(_, _, _, _, _, _, _)

\* the loop over the items of an array or over Object.entries(record): what
\* its body does with item or entry i is handed to legacyObjectStep
legacyObjectEntries(obj, i, original, replacement, done, writes, depth) ==
  IF i > Len(obj.e) \/ done THEN LegacyResult(FALSE, obj, done, writes)
  ELSE legacyObjectStep(obj, i, original, replacement, writes, depth,
         IF obj.k # "arr" /\ HasRootObject(obj.e[i].val) THEN
           AsValue(legacyApplyToLexical(obj.e[i].val.n, original, replacement, done))
         ELSE IF /\ obj.k # "arr"
                 /\ obj.e[i].val.k = "str"
                 /\ Includes(obj.e[i].val.s, original)
                 /\ obj.e[i].key \in PLAIN_TEXT_KEYS THEN
           LegacyResult(TRUE, StrV(ReplaceFirst(obj.e[i].val.s, original, replacement)),
                        TRUE, 1)
         ELSE legacyApplyInObject(obj.e[i].val, original, replacement, done, depth + 1))

\* the body of the loop once item or entry i was handled with result step:
\* return true, or go on with the next one
legacyObjectStep(obj, i, original, replacement, writes, depth, step) ==
  IF step.ret
  THEN LegacyResult(TRUE, [obj EXCEPT !.e[i].val = step.node], step.done,
                    writes + step.writes)
  ELSE legacyObjectEntries([obj EXCEPT !.e[i].val = step.node], i + 1, original,
                           replacement, step.done, writes + step.writes, depth)

legacyApplyInObject(obj, original, replacement, done, depth) ==
  IF obj.k \notin {"obj", "arr"} \/ done \/ depth > BlockMaxDepth
  THEN LegacyResult(FALSE, obj, done, 0)
  ELSE legacyObjectEntries(obj, 1, original, replacement, done, 0, depth)

\* the loop of legacyFixSubstring over docClone.layout, a fresh state per block
RECURSIVE legacyLayout(_, _, _, _, _), legacyLayoutStep(_, _, _, _, _, _)
legacyLayout(layout, i, original, replacement, writes) ==
  IF i > Len(layout.e) THEN LegacyResult(FALSE, layout, FALSE, writes)
  ELSE legacyLayoutStep(layout, i, original, replacement, writes,
                        legacyApplyInObject(layout.e[i].val, original, replacement, FALSE, 0))

legacyLayoutStep(layout, i, original, replacement, writes, r) ==
  IF r.ret
  THEN LegacyResult(TRUE, [layout EXCEPT !.e[i].val = r.node], r.done, writes + r.writes)
  ELSE legacyLayout([layout EXCEPT !.e[i].val = r.node], i + 1, original, replacement,
                    writes + r.writes)

\* legacyFixSubstring from "Check layout blocks" on, l being the result of the loop
legacyFromLayout(docClone, writes, l) ==
  ApplyResult(l.ret, IF l.ret THEN "layout" ELSE "",
              [docClone EXCEPT !.layout = l.node], writes + l.writes, 0, -1, <<>>, -1)

\* legacyFixSubstring from "Check content" on, c being the result on docClone[contentField]
legacyFromContent(docClone, original, replacement, contentField, writes, c) ==
  IF c.ret
  THEN ApplyResult(TRUE, contentField, SetDocField(docClone, contentField, c.node),
                   writes + c.writes, 0, -1, <<>>, -1)
  ELSE legacyFromLayout(SetDocField(docClone, contentField, c.node), writes + c.writes,
                        IF docClone.layout.k = "arr"
                        THEN legacyLayout(docClone.layout, 1, original, replacement, 0)
                        ELSE LegacyResult(FALSE, docClone.layout, FALSE, 0))

\* A faulty hero step: the content field is examined although the hero was fixed.
legacyFromHeroNoReturn(docClone, original, replacement, contentField, h) ==
  legacyFromContent([docClone EXCEPT !.hero = h.node], original, replacement,
                    contentField, h.writes,
                    IF DocField(docClone, contentField).kind # "nil"
                    THEN legacyApplyToLexical(DocField(docClone, contentField), original,
                                              replacement, FALSE)
                    ELSE LegacyResult(FALSE, DocField(docClone, contentField), FALSE, 0))

\* legacyFixSubstring from "Check hero richText" on, h being the result on hero.richText
legacyFromHero(docClone, original, replacement, contentField, h) ==
  IF h.ret
  THEN ApplyResult(TRUE, "hero", [docClone EXCEPT !.hero = h.node], h.writes, 0, -1, <<>>, -1)
  ELSE legacyFromContent([docClone EXCEPT !.hero = h.node], original, replacement,
                         contentField, h.writes,
                         IF DocField(docClone, contentField).kind # "nil"
                         THEN legacyApplyToLexical(DocField(docClone, contentField), original,
                                                   replacement, FALSE)
                         ELSE LegacyResult(FALSE, DocField(docClone, contentField), FALSE, 0))

legacyFixSubstring(docClone, original, replacement, contentField) ==
  IF docClone.title # <<>> /\ Includes(docClone.title, original) THEN
    ApplyResult(TRUE, "title",
                [docClone EXCEPT !.title = ReplaceFirst(docClone.title, original, replacement)],
                1, 0, -1, <<>>, -1)
  ELSE legacyFromHero(docClone, original, replacement, contentField,
                      IF docClone.hero.kind # "nil"
                      THEN legacyApplyToLexical(docClone.hero, original, replacement, FALSE)
                      ELSE LegacyResult(FALSE, docClone.hero, FALSE, 0))

\* ------------------------------------------------------------------------
\* Search-based offset correction (fix.ts)
\* ------------------------------------------------------------------------

\* the while loop: every index at which needle occurs, ascending
RECURSIVE Occurrences(_, _, _)
Occurrences(text, needle, idx) ==
  IF idx = -1 THEN <<>>
  ELSE <<idx>> \o Occurrences(text, needle, IndexOf(text, needle, idx + 1))

\* A faulty reduce: <= in place of <, so that a later occurrence wins a tie.
RECURSIVE ReduceClosestLast(_, _, _, _)
ReduceClosestLast(occurrences, i, closest, expectedOffset) ==
  IF i > Len(occurrences) THEN closest
  ELSE ReduceClosestLast(occurrences, i + 1,
                         IF Abs(occurrences[i] - expectedOffset) <= Abs(closest - expectedOffset)
                         THEN occurrences[i] ELSE closest,
                         expectedOffset)

\* occurrences.reduce((closest, curr) => |curr - e| < |closest - e| ? curr : closest)
RECURSIVE ReduceClosest(_, _, _, _)
ReduceClosest(occurrences, i, closest, expectedOffset) ==
  IF i > Len(occurrences) THEN closest
  ELSE ReduceClosest(occurrences, i + 1,
                     IF Abs(occurrences[i] - expectedOffset) < Abs(closest - expectedOffset)
                     THEN occurrences[i] ELSE closest,
                     expectedOffset)

findClosestMatch(text, needle, expectedOffset) ==
  IF needle = <<>> THEN -1
  ELSE
    LET occurrences == Occurrences(text, needle, IndexOf(text, needle, 0))
    IN  IF Len(occurrences) = 0 THEN -1
        ELSE IF Len(occurrences) = 1 THEN occurrences[1]
        ELSE ReduceClosest(occurrences, 2, occurrences[1], expectedOffset)

\* ------------------------------------------------------------------------
\* The fix handler (fix.ts, createFixHandler)
\* ------------------------------------------------------------------------

\* pluginConfig.contentField ("" when the option is not set)
ConfigContentField == ""

\* the collection the stored document belongs to
CollectionSlug == "pages"

\* A request: user is whether req.user is set; id 0 and collection "" are
\* missing values; hasReplacement is replacement !== undefined; offset and
\* length are <<>> when they are no number and <<n>> for the number n; field
\* "" is an absent field.
Request(user, id, collection, original, hasReplacement, replacement, offset, length, field) ==
  [user |-> user, id |-> id, collection |-> collection, original |-> original,
   hasReplacement |-> hasReplacement, replacement |-> replacement,
   offset |-> offset, length |-> length, field |-> field]

\* the result of a call that was not made
NotRun(d) == ApplyResult(FALSE, "", d, 0, 0, -1, <<>>, -1)

\* A faulty updateData: the title is saved along with the modified field.
UpdateDataWithTitle(result) ==
  [f \in {"title", result.modifiedField} |->
     IF f = "title" THEN result.doc.title
     ELSE IF f = "hero" THEN result.doc.hero
     ELSE IF f = "layout" THEN result.doc.layout
     ELSE DocField(result.doc, f)]

\* const updateData = {}; switch (result.modifiedField) { ... }
UpdateData(result) ==
  IF result.modifiedField = "title" THEN [f \in {"title"} |-> result.doc.title]
  ELSE IF result.modifiedField = "hero" THEN [f \in {"hero"} |-> result.doc.hero]
  ELSE IF result.modifiedField = "layout" THEN [f \in {"layout"} |-> result.doc.layout]
  ELSE [f \in {result.modifiedField} |-> DocField(result.doc, result.modifiedField)]

\* What one run of the handler on the stored document d computes, up to the
\* call of payload.update.  stage is the exit taken: "unauthorized" (401),
\* "badrequest" (400), "notfound" (404), "notfixed" (success: false) or
\* "fixed" (payload.update is called).  The other fields are the handler's
\* locals: path is "offset" when the text at the request's offset was
\* verified, "search" when findClosestMatch found an offset, "nomatch" when it
\* found none, "none" when the request carries no numeric offset and length;
\* pathResult is the result of applyFixAtOffset on that path, legacyRan
\* whether legacyFixSubstring was called and legacyResult its result, result
\* and method the final values of the variables of these names, updateData
\* the data handed to payload.update.
Handled(stage, contentField, ex, path, target, targetLength, pathResult, legacyRan, legacyResult, result, method) ==
  [stage |-> stage, contentField |-> contentField, fullText |-> ex.fullText,
   segments |-> ex.segments, path |-> path, target |-> target,
   targetLength |-> targetLength, pathResult |-> pathResult,
   legacyRan |-> legacyRan, legacyResult |-> legacyResult, result |-> result,
   method |-> method,
   updateData |-> IF stage = "fixed" THEN UpdateData(result) ELSE <<>>]

NoExtract == [fullText |-> <<>>, segments |-> <<>>]

Early(stage, d) ==
  Handled(stage, "", NoExtract, "none", -1, -1, NotRun(d), FALSE, NotRun(d), NotRun(d), "legacy")

\* if (!result.fixed || !result.modifiedField) return { success: false, ... }
StageOf(result) ==
  IF ~result.fixed \/ result.modifiedField = "" THEN "notfixed" ELSE "fixed"

\* A faulty fallback: method keeps the value the offset or search branch gave it.
MethodKept(method, result) == method

\* if (result.fixed) method = 'legacy', after the fallback returned result
MethodAfterFallback(method, result) == IF result.fixed THEN "legacy" ELSE method

\* the handler from "If offset/search-based fix failed, fall back to legacy"
\* on, once the fallback returned legacyResult
AfterFallback(contentField, ex, path, target, targetLength, pathResult, method, legacyResult) ==
  Handled(StageOf(legacyResult), contentField, ex, path, target, targetLength, pathResult,
          TRUE, legacyResult, legacyResult, MethodAfterFallback(method, legacyResult))

\* the handler after the offset or search branch set result to pathResult
\* and method to method
AfterPath(r, contentField, ex, path, target, targetLength, method, pathResult) ==
  IF ~pathResult.fixed
  THEN AfterFallback(contentField, ex, path, target, targetLength, pathResult, method,
                     legacyFixSubstring(pathResult.doc, r.original, r.replacement,
                                        contentField))
  ELSE Handled(StageOf(pathResult), contentField, ex, path, target, targetLength,
               pathResult, FALSE, NotRun(pathResult.doc), pathResult, method)

\* the else branch of "actual === original", findClosestMatch having returned foundOffset
AfterSearch(d, r, contentField, ex, foundOffset) ==
  IF foundOffset >= 0
  THEN AfterPath(r, contentField, ex, "search", foundOffset, Len(r.original), "search",
                 applyFixAtOffset(ex.segments, ex.fullText, foundOffset, Len(r.original),
                                  r.replacement, d))
  ELSE AfterPath(r, contentField, ex, "nomatch", -1, -1, "legacy", NotRun(d))

\* the handler once extractAllTextFromDocWithSources returned ex
AfterExtract(d, r, contentField, ex) ==
  IF r.offset # <<>> /\ r.length # <<>> THEN
    IF Slice(ex.fullText, r.offset[1], r.offset[1] + r.length[1]) = r.original
    THEN AfterPath(r, contentField, ex, "offset", r.offset[1], r.length[1], "offset",
                   applyFixAtOffset(ex.segments, ex.fullText, r.offset[1], r.length[1],
                                    r.replacement, d))
    ELSE AfterSearch(d, r, contentField, ex,
                     findClosestMatch(ex.fullText, r.original, r.offset[1]))
  ELSE AfterFallback(contentField, ex, "none", -1, -1, NotRun(d), "legacy",
                     legacyFixSubstring(d, r.original, r.replacement, contentField))

\* field || pluginConfig.contentField || 'content'
ContentFieldOf(r) ==
  IF r.field # "" THEN r.field
  ELSE IF ConfigContentField # "" THEN ConfigContentField
  ELSE "content"

\* the handler once payload.find returned the stored document d
AfterFind(d, r, contentField) ==
  AfterExtract(d, r, contentField, extractAllTextFromDocWithSources(d, contentField))

FixHandler(d, r) ==
  IF ~r.user THEN Early("unauthorized", d)
  ELSE IF r.id = 0 \/ r.collection = "" \/ r.original = <<>> \/ ~r.hasReplacement
    THEN Early("badrequest", d)
  ELSE IF ~(r.collection = CollectionSlug /\ r.id = d.id) THEN Early("notfound", d)
  ELSE AfterFind(d, r, ContentFieldOf(r))

\* Response.json(...): status the HTTP status, success "" when the body has
\* no success key, method "" when it has no method key
Response(status, success, fixesApplied, method) ==
  [status |-> status, success |-> success, fixesApplied |-> fixesApplied, method |-> method]

ResponseOf(h) ==
  IF h.stage = "unauthorized" THEN Response(401, "", 0, "")
  ELSE IF h.stage = "badrequest" THEN Response(400, "", 0, "")
  ELSE IF h.stage = "notfound" THEN Response(404, "", 0, "")
  ELSE IF h.stage = "notfixed" THEN Response(200, "false", 0, "")
  ELSE Response(200, "true", 1, h.method)

\* the stored document after payload.update({ collection, id, data })
Updated(d, data) ==
  IF DOMAIN data = {"title"} THEN [d EXCEPT !.title = data["title"]]
  ELSE IF DOMAIN data = {"hero"} THEN [d EXCEPT !.hero = data["hero"]]
  ELSE IF DOMAIN data = {"layout"} THEN [d EXCEPT !.layout = data["layout"]]
  ELSE IF DOMAIN data = {"content"} THEN [d EXCEPT !.content = data["content"]]
  ELSE IF DOMAIN data = {"body"} THEN [d EXCEPT !.body = data["body"]]
  ELSE d

\* ------------------------------------------------------------------------
\* Inputs: stored documents and fix requests
\* ------------------------------------------------------------------------

Text(s) == Node("text", TRUE, s, <<>>, <<>>)

Paragraph(children) == Node("paragraph", FALSE, <<>>, children, <<>>)

Heading(children) == Node("heading", FALSE, <<>>, children, <<>>)

Link(children) == Node("link", FALSE, <<>>, children, <<>>)

Code(children) == Node("code", FALSE, <<>>, children, <<>>)

\* a rich-text field value { root: { type: 'root', children } }
RichText(children) ==
  Node("", FALSE, <<>>, <<>>, <<Node("root", FALSE, <<>>, children, <<>>)>>)

Titles == {<<>>, <<"a", "b">>, <<" ", "a", "b">>, <<" ">>}

Contents ==
  { Nil,
    RichText(<<>>),
    RichText(<<Paragraph(<<Text(<<"a", "b", " ", "a">>)>>)>>),
    RichText(<<Paragraph(<<Text(<<"a", "b">>), Text(<<"b", "a">>)>>)>>),
    RichText(<<Paragraph(<<>>), Paragraph(<<Text(<<"a", "b">>)>>)>>),
    RichText(<<Paragraph(<<Text(<<" ", "a", "b">>)>>)>>),
    RichText(<<Paragraph(<<Text(<<"a", "b">>)>>), Code(<<Text(<<"c", "a", "b">>)>>)>>),
    RichText(<<Code(<<Text(<<"a", "b">>)>>)>>),
    RichText(<<Paragraph(<<Link(<<Text(<<"a", "b">>)>>)>>), Heading(<<Text(<<"b">>)>>)>>),
    Node("", FALSE, <<>>, <<>>, <<Arr(<<Paragraph(<<Text(<<"b", "a", "b">>)>>)>>)>>) }

HeroText == RichText(<<Paragraph(<<Text(<<"b", "a">>)>>)>>)

Block1 ==
  ObjV(<<Entry("id", StrV(<<"a", "b", "a">>)),
         Entry("title", StrV(<<"a", " ", "b">>)),
         Entry("richText", LexV(RichText(<<Paragraph(<<Text(<<"b", "a">>)>>)>>)))>>)

Block2 ==
  ObjV(<<Entry("heading", StrV(<<"a", "b">>)),
         Entry("items", ArrV(<<ObjV(<<Entry("text", StrV(<<"b", "a", "b">>)),
                                      Entry("rating", OtherV)>>)>>)),
         Entry("link", ObjV(<<Entry("label", StrV(<<"a", "b", "c">>))>>))>>)

Layouts == {ArrV(<<Block1>>), ArrV(<<Block1, Block2>>)}

DocId == 1

\* documents without layout, and documents with layout blocks
Docs ==
  {Doc(DocId, t, Nil, c, Nil, OtherV) : t \in Titles, c \in Contents}
  \cup {Doc(DocId, t, h, c, Nil, l) :
          t \in {<<>>, <<"a", "b">>}, h \in {Nil, HeroText},
          c \in {Nil, RichText(<<Paragraph(<<Text(<<"a", "b", " ", "a">>)>>)>>)},
          l \in Layouts}
  \cup {Doc(DocId, <<"a", "b">>, Nil, Nil,
            RichText(<<Paragraph(<<Text(<<"b", "b">>)>>)>>), ArrV(<<>>))}

Originals ==
  {<<"a">>, <<"a", "b">>, <<"b", "b">>, <<"c">>, <<"b", "\n", "a">>, <<"b">>, <<"z">>}

Replacements == {<<>>, <<"x">>, <<"x", "y">>}

MaxOffset == 10

MaxLength == 3

\* well-formed requests of an authenticated user for the stored document
FixRequests ==
  {Request(TRUE, DocId, CollectionSlug, o, TRUE, r, <<off>>, <<len>>, "") :
     o \in Originals, r \in Replacements, off \in (-2)..MaxOffset, len \in 0..MaxLength}
  \cup {Request(TRUE, DocId, CollectionSlug, o, TRUE, r, off, len, f) :
     o \in Originals, r \in Replacements,
     off \in {<<>>, <<0>>}, len \in {<<>>}, f \in {"", "body"}}
  \cup {Request(TRUE, DocId, CollectionSlug, o, TRUE, r, <<>>, <<1>>, "") :
     o \in Originals, r \in Replacements}

\* requests the handler answers before it reads the document
OtherRequests ==
  { Request(FALSE, DocId, CollectionSlug, <<"a">>, TRUE, <<"x">>, <<0>>, <<1>>, ""),
    Request(TRUE, 0, CollectionSlug, <<"a">>, TRUE, <<"x">>, <<0>>, <<1>>, ""),
    Request(TRUE, DocId, "", <<"a">>, TRUE, <<"x">>, <<0>>, <<1>>, ""),
    Request(TRUE, DocId, CollectionSlug, <<>>, TRUE, <<"x">>, <<0>>, <<1>>, ""),
    Request(TRUE, DocId, CollectionSlug, <<"a">>, FALSE, <<>>, <<0>>, <<1>>, ""),
    Request(TRUE, DocId + 1, CollectionSlug, <<"a">>, TRUE, <<"x">>, <<0>>, <<1>>, "") }

Requests == FixRequests \cup OtherRequests

NoRequest == Request(FALSE, 0, "", <<>>, FALSE, <<>>, <<>>, <<>>, "")

\* ------------------------------------------------------------------------
\* Bulk scan (bulk.ts): the job, the scan loop, the handlers
\* ------------------------------------------------------------------------

\* milliseconds
RATE_LIMIT_DELAY == 3000

STALE_TIMEOUT == 10 * 60 * 1000

\* A ScanJob object.  completedAt and error are <<>> and "" while null; the
\* time stamps are clock readings.
ScanJob(status, current, total, currentDoc, totalIssues, totalDocuments, averageScore, startedAt, completedAt, error, lastActivity) ==
  [status |-> status, current |-> current, total |-> total, currentDoc |-> currentDoc,
   totalIssues |-> totalIssues, totalDocuments |-> totalDocuments,
   averageScore |-> averageScore, startedAt |-> startedAt, completedAt |-> completedAt,
   error |-> error, lastActivity |-> lastActivity]

\* the object createBulkHandler assigns to currentJob at time t
NewJob(t) == ScanJob("running", 0, 0, 0, 0, 0, 0, t, <<>>, "", t)

\* A faulty test: a job is stale as soon as the timeout is reached.
isJobStaleAtTimeout(js, cur, t) ==
  /\ cur # 0
  /\ js[cur].status = "running"
  /\ t - js[cur].lastActivity >= STALE_TIMEOUT

\* isJobStale() at time t: jobs are the ScanJob objects created so far, cur
\* the one currentJob refers to, 0 while currentJob is null
isJobStale(js, cur, t) ==
  /\ cur # 0
  /\ js[cur].status = "running"
  /\ t - js[cur].lastActivity > STALE_TIMEOUT

\* resetIfStale() at time t: the objects afterwards
resetIfStale(js, cur, t) ==
  IF isJobStale(js, cur, t)
  THEN [js EXCEPT ![cur].status = "error", ![cur].error = "Scan timed out (no progress)",
                  ![cur].completedAt = <<t>>]
  ELSE js

\* calculateScore(wordCount, issueCount), Math.round rounding halves up
calculateScore(wordCount, issueCount) ==
  IF wordCount = 0 \/ issueCount = 0 THEN 100
  ELSE Min(100, Max(0, (200 * wordCount - 2000 * issueCount + wordCount) \div (2 * wordCount)))

RECURSIVE Sum(_)
Sum(scores) == IF scores = <<>> THEN 0 ELSE Head(scores) + Sum(Tail(scores))

\* Math.round(sum of the scores / results.length), 100 without results
averageScoreOf(scores) ==
  IF Len(scores) > 0 THEN (2 * Sum(scores) + Len(scores)) \div (2 * Len(scores)) ELSE 100

\* One invocation of runBulkScan.  pc is the await it is suspended at: "find"
\* (payload.find of the first pass), "check" (checkWithLanguageTool and what
\* follows it up to the sleep), "sleep", or "done"; docs are the documents the
\* first pass found, each by what extraction does with it; i is the
\* document at hand; processed, totalIssues, skipped and results (the
\* scores pushed) the locals; wakeAt when the sleep ends; end how the
\* invocation ended.
Scan(spc, docs, i, processed, totalIssues, skipped, results, wakeAt, end) ==
  [pc |-> spc, docs |-> docs, i |-> i, processed |-> processed, totalIssues |-> totalIssues,
   skipped |-> skipped, results |-> results, wakeAt |-> wakeAt, end |-> end]

\* runBulkScan(...) up to its first await
NewScan == Scan("find", <<>>, 0, 0, 0, 0, <<>>, 0, "")

\* what a step of a scan leaves: its invocation and the ScanJob objects
ScanStep(scan, js) == [scan |-> scan, jobs |-> js]

\* "if (currentJob) { ... }" writing progress, totals or the end of the scan
\* into the object currentJob refers to
WriteProgress(js, cur, processed, i, t) ==
  IF cur = 0 THEN js
  ELSE [js EXCEPT ![cur].current = processed, ![cur].currentDoc = i, ![cur].lastActivity = t]

WriteTotals(js, cur, totalIssues, processed, t) ==
  IF cur = 0 THEN js
  ELSE [js EXCEPT ![cur].totalIssues = totalIssues, ![cur].totalDocuments = processed,
                  ![cur].lastActivity = t]

WriteCompleted(js, cur, scan, t) ==
  IF cur = 0 THEN js
  ELSE [js EXCEPT ![cur].status = "completed", ![cur].completedAt = <<t>>,
                  ![cur].averageScore = averageScoreOf(scan.results),
                  ![cur].totalDocuments = scan.processed,
                  ![cur].totalIssues = scan.totalIssues, ![cur].lastActivity = t]

WriteError(js, cur, message, t) ==
  IF cur = 0 THEN js
  ELSE [js EXCEPT ![cur].status = "error", ![cur].error = message,
                  ![cur].completedAt = <<t>>, ![cur].lastActivity = t]

\* "Mark completed": the end of the try block
Completed(scan, js, cur, t) ==
  ScanStep([scan EXCEPT !.pc = "done", !.end = "completed"], WriteCompleted(js, cur, scan, t))

\* A faulty scan: an exception of a document ends the scan in the outer catch.
DocThrewAborting(scan, js, cur, t) ==
  ScanStep([scan EXCEPT !.pc = "done", !.end = "error"], WriteError(js, cur, "document", t))

\* after the try/catch of a document: "Update running totals", then the
\* call of sleep(RATE_LIMIT_DELAY)
AfterDoc(scan, js, cur, t) ==
  ScanStep([scan EXCEPT !.pc = "sleep", !.wakeAt = t + RATE_LIMIT_DELAY],
           WriteTotals(js, cur, scan.totalIssues, scan.processed, t))

\* a document raised an exception inside the try block of the loop body
DocThrew(scan, js, cur, t) == AfterDoc(scan, js, cur, t)

\* The second pass from document i on, up to the next await: the loop body
\* for a document whose text is empty ends with `continue`, without await.
RECURSIVE ScanFrom(_, _, _, _, _)
ScanFrom(scan, js, cur, i, t) ==
  IF i > Len(scan.docs) THEN Completed([scan EXCEPT !.i = i], js, cur, t)
  ELSE IF scan.docs[i] = "throws"
    THEN DocThrew([scan EXCEPT !.i = i, !.processed = @ + 1], WriteProgress(js, cur, scan.processed + 1, i, t), cur, t)
  ELSE IF scan.docs[i] = "empty"
    THEN ScanFrom([scan EXCEPT !.processed = @ + 1, !.skipped = @ + 1], WriteProgress(js, cur, scan.processed + 1, i, t), cur, i + 1, t)
  ELSE ScanStep([scan EXCEPT !.i = i, !.processed = @ + 1, !.pc = "check"],
                WriteProgress(js, cur, scan.processed + 1, i, t))

\* the first pass returned docs: total is written, the second pass begins
AfterFirstPass(scan, js, cur, docs, t) ==
  ScanFrom([scan EXCEPT !.docs = docs],
           IF cur = 0 THEN js ELSE [js EXCEPT ![cur].total = Len(docs), ![cur].lastActivity = t],
           cur, 1, t)

\* What follows the call of checkWithLanguageTool for a document of
\* wordCount words: "checkThrows" and "filterThrows" leave the try block
\* before the result is counted; "storeThrows" is caught by the inner try
\* after it was counted; "stored" with issueCount issues left by the filter.
AfterCheck(scan, js, cur, outcome, wordCount, issueCount, t) ==
  IF outcome \in {"checkThrows", "filterThrows"} THEN DocThrew(scan, js, cur, t)
  ELSE AfterDoc([scan EXCEPT !.totalIssues = @ + issueCount,
                             !.results = Append(@, calculateScore(wordCount, issueCount))],
                js, cur, t)

\* the response of a handler: its status and the message, error or status
\* of its body (the fields of the ScanJob spread into the body are those of
\* the object currentJob refers to)
Http(method, status, message) == [method |-> method, status |-> status, message |-> message]

\* no job, no scan, no request yet
BulkAtRest ==
  /\ jobs = <<>>
  /\ currentJob = 0
  /\ scans = <<>>
  /\ now = 0
  /\ ticks = 0
  /\ http = Http("", 0, "")
  /\ calls = <<>>

\* ------------------------------------------------------------------------
\* False-positive filter (filters.ts)
\* ------------------------------------------------------------------------

\* A SpellCheckIssue: original and context are strings, replacements a list
\* of strings; an absent context is the empty string (both are falsy).
Issue(ruleId, category, original, isPremium, context, replacements) == [ruleId |-> ruleId, category |-> category, original |-> original, isPremium |-> isPremium, context |-> context, replacements |-> replacements]

DEFAULT_SKIP_RULES == {"WHITESPACE_RULE", "COMMA_PARENTHESIS_WHITESPACE", "UNPAIRED_BRACKETS", "UPPERCASE_SENTENCE_START", "FRENCH_WHITESPACE", "MORFOLOGIK_RULE_FR_FR", "APOS_TYP", "POINT_VIRGULE", "DASH_RULE", "FRENCH_WORD_REPEAT_RULE", "MOT_TRAIT_MOT", "PAS_DE_TRAIT_UNION"}

DEFAULT_SKIP_CATEGORIES == {"TYPOGRAPHY", "TYPOS", "STYLE", "CAT_TYPOGRAPHIE", "REPETITIONS_STYLE", "CAT_REGLES_DE_BASE"}

\* the plugin's configuration, as far as the filter reads it
Config(skipRules, skipCategories, customDictionary) == [skipRules |-> skipRules, skipCategories |-> skipCategories, customDictionary |-> customDictionary]

LowerCase == <<"a", "b", "c", "d", "e", "f", "g", "h", "i", "j", "k", "l", "m", "n", "o", "p", "q", "r", "s", "t", "u", "v", "w", "x", "y", "z">>

UpperCase == <<"A", "B", "C", "D", "E", "F", "G", "H", "I", "J", "K", "L", "M", "N", "O", "P", "Q", "R", "S", "T", "U", "V", "W", "X", "Y", "Z">>

\* the character classes of SKIP_PATTERNS
Range(s) == {s[i] : i \in 1..Len(s)}

AZ == Range(UpperCase)

az == Range(LowerCase)

Letters == AZ \cup az

\* String.prototype.toLowerCase(), on the letters A to Z
LowerOf(c) == IF c \in AZ THEN LowerCase[CHOOSE i \in 1..Len(UpperCase) : UpperCase[i] = c] ELSE c

toLowerCase(s) == [i \in 1..Len(s) |-> LowerOf(s[i])]

\* the characters a to b of s (1-based, inclusive) are all of class
AllIn(s, a, b, class) == \A i \in a..b : s[i] \in class

\* /^https?:\/\//i
IsUrl(s) ==
  \/ HasPrefix(toLowerCase(s), <<"h", "t", "t", "p", ":", "/", "/">>)
  \/ HasPrefix(toLowerCase(s), <<"h", "t", "t", "p", "s", ":", "/", "/">>)

\* /^mailto:/i
IsMailto(s) == HasPrefix(toLowerCase(s), <<"m", "a", "i", "l", "t", "o", ":">>)

\* /^[a-zA-Z0-9._%+-]+@[a-zA-Z0-9.-]+\.[a-zA-Z]{2,}$/
IsEmail(s) ==
  \E a \in 1..Len(s), d \in 1..Len(s) :
    /\ a + 2 <= d
    /\ d + 3 <= Len(s)
    /\ AllIn(s, 1, a, Letters \cup Digits \cup {".", "_", "%", "+", "-"})
    /\ s[a + 1] = "@"
    /\ AllIn(s, a + 2, d, Letters \cup Digits \cup {".", "-"})
    /\ s[d + 1] = "."
    /\ AllIn(s, d + 2, Len(s), Letters)

\* /^[A-Z][a-z]+[A-Z]/
IsCamelCase(s) ==
  \E k \in 2..(Len(s) - 1) : s[1] \in AZ /\ AllIn(s, 2, k, az) /\ s[k + 1] \in AZ

\* /^[A-Z]{2,}$/
IsAllCaps(s) == Len(s) >= 2 /\ AllIn(s, 1, Len(s), AZ)

\* /^\d+[\d.,]*$/
IsNumber(s) == Len(s) >= 1 /\ s[1] \in Digits /\ AllIn(s, 2, Len(s), Digits \cup {".", ","})

\* /^\d+[a-zA-Z]+$/
IsNumberWithUnit(s) ==
  \E k \in 1..(Len(s) - 1) : AllIn(s, 1, k, Digits) /\ AllIn(s, k + 1, Len(s), Letters)

\* /^[#@]/
IsHashtag(s) == Len(s) >= 1 /\ s[1] \in {"#", "@"}

\* /^[€$£¥]/
IsCurrency(s) == Len(s) >= 1 /\ s[1] \in {"€", "$", "£", "¥"}

\* /^0[1-9]\d{8}$/
IsFrenchPhone(s) ==
  Len(s) = 10 /\ s[1] = "0" /\ s[2] \in Digits \ {"0"} /\ AllIn(s, 3, 10, Digits)

\* /^\+?\d[\d\s.-]{8,}$/
IsPhoneFrom(s, k) ==
  /\ Len(s) >= k + 8
  /\ s[k] \in Digits
  /\ AllIn(s, k + 1, Len(s), Digits \cup WhiteSpace \cup {".", "-"})

IsPhone(s) == IsPhoneFrom(s, 1) \/ (Len(s) >= 1 /\ s[1] = "+" /\ IsPhoneFrom(s, 2))

\* /^[a-z-]+\.[a-z]{2,}$/i
IsDomain(s) ==
  \E k \in 1..(Len(s) - 3) :
    /\ AllIn(s, 1, k, Letters \cup {"-"})
    /\ s[k + 1] = "."
    /\ AllIn(s, k + 2, Len(s), Letters)

\* some pattern of SKIP_PATTERNS matches s
MatchesSkipPattern(s) ==
  \/ IsUrl(s) \/ IsMailto(s) \/ IsEmail(s) \/ IsCamelCase(s) \/ IsAllCaps(s) \/ IsNumber(s)
  \/ IsNumberWithUnit(s) \/ IsHashtag(s) \/ IsCurrency(s) \/ IsFrenchPhone(s) \/ IsPhone(s)
  \/ IsDomain(s)

\* "lower.includes(word) || word.includes(lower)" for some word of words
PartialMatch(lower, words) ==
  \E i \in 1..Len(words) : Includes(lower, words[i]) \/ Includes(words[i], lower)

\* the context holds a dictionary phrase of several words
PhraseMatch(ctxLower, words) ==
  \E i \in 1..Len(words) : Includes(words[i], <<" ">>) /\ Includes(ctxLower, words[i])

\* ruleId.includes('REPET'), for the rule ids of the model
RepetRules == {"FR_REPETITION"}

IsRepetition(issue) == issue.ruleId \in RepetRules \/ issue.category = "CAT_REGLES_DE_BAS"

\* A faulty filter: premium issues pass.
KeepsPremium(issue) == FALSE

\* "if (issue.isPremium) return false"
IsPremium(issue) == issue.isPremium

\* the callback of issues.filter: TRUE when the issue is kept
Keeps(issue, skipRules, skipCategories, dictionaryWords) ==
  /\ ~IsPremium(issue)
  /\ issue.ruleId \notin skipRules
  /\ issue.category \notin skipCategories
  /\ ~(issue.original # <<>> /\ toLowerCase(issue.original) \in Range(dictionaryWords))
  /\ ~(issue.original # <<>> /\ PartialMatch(toLowerCase(issue.original), dictionaryWords))
  /\ ~(issue.context # <<>> /\ PhraseMatch(toLowerCase(issue.context), dictionaryWords))
  /\ ~(issue.original # <<>> /\ Len(issue.original) <= 1 /\ issue.category # "GRAMMAR")
  /\ ~(issue.original # <<>> /\ MatchesSkipPattern(issue.original))
  /\ ~(Len(issue.replacements) > 0 /\ issue.replacements[1] = issue.original)
  /\ ~(issue.context # <<>> /\ Len(Trim(issue.context)) < 5)
  /\ ~(IsRepetition(issue) /\ Len(issue.replacements) > 0 /\ issue.replacements[1] = <<>>)

\* Array.prototype.filter with the callback Keeps
RECURSIVE FilterIssues(_, _, _, _)
FilterIssues(issues, skipRules, skipCategories, dictionaryWords) ==
  IF issues = <<>> THEN <<>>
  ELSE IF Keeps(Head(issues), skipRules, skipCategories, dictionaryWords)
  THEN <<Head(issues)>> \o FilterIssues(Tail(issues), skipRules, skipCategories, dictionaryWords)
  ELSE FilterIssues(Tail(issues), skipRules, skipCategories, dictionaryWords)

\* [...new Set(list)]: the first occurrence of each element, in order
RECURSIVE Dedupe(_)
Dedupe(list) ==
  IF list = <<>> THEN <<>>
  ELSE IF list[Len(list)] \in Range(SubSeq(list, 1, Len(list) - 1))
  THEN Dedupe(SubSeq(list, 1, Len(list) - 1))
  ELSE Append(Dedupe(SubSeq(list, 1, Len(list) - 1)), list[Len(list)])

\* customDictionary.map((w) => w.toLowerCase())
LowerAll(list) == [i \in 1..Len(list) |-> toLowerCase(list[i])]

\* filterFalsePositives(issues, config, payload), dbWords being what
\* loadDictionaryWords(payload) returned
filterFalsePositives(issues, config, dbWords) ==
  FilterIssues(issues, DEFAULT_SKIP_RULES \cup config.skipRules,
               DEFAULT_SKIP_CATEGORIES \cup config.skipCategories,
               Dedupe(LowerAll(config.customDictionary) \o dbWords))

\* ------------------------------------------------------------------------
\* Stored results and dictionary (validate.ts, afterChangeCheck.ts, bulk.ts,
\* dictionary.ts, SpellCheckField.tsx)
\* ------------------------------------------------------------------------

CACHE_TTL == 5 * 60 * 1000

\* a document of spellcheck-results, as far as the scans write it; its id is
\* its index in records
ResultRow(docId, collection, issues, ignoredIssues) == [docId |-> docId, collection |-> collection, issues |-> issues, ignoredIssues |-> ignoredIssues]

\* an entry of ignoredIssues
Ignored(issue) == [ruleId |-> issue.ruleId, original |-> issue.original]

\* "ignoredIssues.some((ignored) => ignored.ruleId === issue.ruleId &&
\* ignored.original === issue.original)"
IsIgnored(issue, ignoredIssues) == \E i \in 1..Len(ignoredIssues) : ignoredIssues[i] = Ignored(issue)

\* "issues.filter((issue) => !ignoredIssues.some(...))"
WithoutIgnored(issues, ignoredIssues) == SelectSeq(issues, LAMBDA issue : ~IsIgnored(issue, ignoredIssues))

\* what a payload.find on spellcheck-dictionary returned: the words of its
\* docs, and the number of invalidateDictionaryCache calls made before the
\* database was read
WordList(words, readAt) == [words |-> words, readAt |-> readAt]

\* the elements of a set in some order
RECURSIVE SetToSeq(_)
SetToSeq(set) == IF set = {} THEN <<>> ELSE <<CHOOSE w \in set : TRUE>> \o SetToSeq(set \ {CHOOSE w \in set : TRUE})

\* "if (cachedWords && (now - cacheTimestamp) < CACHE_TTL)"
CacheHit(cw, ts, t) == cw # <<>> /\ (t - ts) < CACHE_TTL

\* the ids of the documents a payload.find on spellcheck-results with
\* "where docId equals, collection equals" can return as docs[0]; 0 when
\* docs is empty
Existing(rs, docId, collection) ==
  IF \E e \in 1..Len(rs) : rs[e].docId = docId /\ rs[e].collection = collection
  THEN {e \in 1..Len(rs) : rs[e].docId = docId /\ rs[e].collection = collection}
  ELSE {0}

\* An asynchronous run: a validate request, an afterChange hook, the body of
\* the bulk scan's loop for one document, an onIgnore callback, a dictionary
\* add or delete request.  pc is the await it stands at, id the document (the
\* records document for onIgnore), issues the issues it holds, words the
\* words or ids of the body still to handle, existing and ignoredIssues what
\* its find returned, started the "now" of its loadDictionaryWords call,
\* epoch the number of invalidations made before that call, list what the
\* call returned or is about to.
Task(kind, tpc, id, issues, words, existing, ignoredIssues, started, epoch, list) == [kind |-> kind, pc |-> tpc, id |-> id, issues |-> issues, words |-> words, existing |-> existing, ignoredIssues |-> ignoredIssues, started |-> started, epoch |-> epoch, list |-> list]

\* a run that has ended
Done(kind) == Task(kind, "done", 0, <<>>, <<>>, 0, <<>>, 0, 0, <<>>)

\* the request an endpoint answered last, and its response's status
Wire(path, method, user, status) == [path |-> path, method |-> method, user |-> user, status |-> status]

\* the plugin's configuration in the runs
PluginConfig == Config({}, {}, <<>>)

\* "w.trim().toLowerCase()"
Cleaned(w) == toLowerCase(Trim(w))

\* the words of the body from the first one the loop does not skip
RECURSIVE SkipBlank(_)
SkipBlank(words) == IF words = <<>> THEN <<>> ELSE IF Cleaned(Head(words)) = <<>> THEN SkipBlank(Tail(words)) ELSE words

\* nothing stored, nothing cached, no run, no request yet
StoreAtRest ==
  /\ records = <<>>
  /\ dictionary = {}
  /\ cachedWords = <<>>
  /\ cacheTimestamp = 0
  /\ invalidations = 0
  /\ tasks = <<>>
  /\ wire = Wire("", "", FALSE, 0)

\* ------------------------------------------------------------------------
\* The fix endpoint as a state machine
\* ------------------------------------------------------------------------

\* doc is the stored document and before the stored document as it was when
\* the request arrived, pc "idle" before and "done" after the request, req the
\* request handled, resp the response, updates the payload.update calls
\* issued, loc the handler's locals (FixHandler).  input and output are the
\* arguments and the result of a function applied on its own (SpecClosest,
\* SpecMapper, SpecExtract, SpecWalker); the endpoint leaves them alone, as
\* it leaves the variables of the bulk scan.
NoInput == [fn |-> ""]

NoOutput == <<>>

Init ==
  /\ doc \in Docs
  /\ before = doc
  /\ pc = "idle"
  /\ req = NoRequest
  /\ resp = Response(0, "", 0, "")
  /\ updates = <<>>
  /\ loc = Early("idle", doc)
  /\ input = NoInput
  /\ BulkAtRest
  /\ StoreAtRest
  /\ output = NoOutput

\* the handler's run h ending with its response, payload.update having
\* succeeded if it was called
Answered(r, h) ==
  /\ loc' = h
  /\ resp' = ResponseOf(h)
  /\ updates' = IF h.stage = "fixed" THEN <<h.updateData>> ELSE <<>>
  /\ doc' = IF h.stage = "fixed" THEN Updated(doc, h.updateData) ELSE doc
  /\ req' = r
  /\ pc' = "done"
  /\ UNCHANGED <<before, input, output, bulkVars, storeVars>>

\* the handler's run h ending in its catch block, payload.update having thrown
Thrown(r, h) ==
  /\ h.stage = "fixed"
  /\ loc' = h
  /\ resp' = Response(500, "", 0, "")
  /\ updates' = <<h.updateData>>
  /\ doc' = doc
  /\ req' = r
  /\ pc' = "done"
  /\ UNCHANGED <<before, input, output, bulkVars, storeVars>>

\* POST /api/spellcheck/fix, payload.update succeeding when it is called
Fix(r) == pc = "idle" /\ Answered(r, FixHandler(doc, r))

\* POST /api/spellcheck/fix, payload.update throwing: the catch answers 500
FixUpdateThrows(r) == pc = "idle" /\ Thrown(r, FixHandler(doc, r))

Next == \E r \in Requests : Fix(r) \/ FixUpdateThrows(r)

Spec == Init /\ [][Next]_vars

\* ------------------------------------------------------------------------
\* findClosestMatch applied on its own
\* ------------------------------------------------------------------------

MaxTextLength == 5

RECURSIVE StringsUpTo(_)
StringsUpTo(n) ==
  IF n = 0 THEN {<<>>}
  ELSE StringsUpTo(n - 1)
       \cup {Append(t, c) : t \in {u \in StringsUpTo(n - 1) : Len(u) = n - 1}, c \in {"a", "b"}}

Needles == {<<>>, <<"a">>, <<"b">>, <<"a", "a">>, <<"a", "b">>, <<"a", "b", "a">>}

\* the handler's variables while no request is handled
AtRest ==
  /\ doc = Doc(DocId, <<>>, Nil, Nil, Nil, OtherV)
  /\ before = doc
  /\ pc = "idle"
  /\ req = NoRequest
  /\ resp = Response(0, "", 0, "")
  /\ updates = <<>>
  /\ loc = Early("idle", doc)
  /\ BulkAtRest
  /\ StoreAtRest

InitClosest ==
  /\ AtRest
  /\ input \in {[fn |-> "findClosestMatch", text |-> t, needle |-> n, expectedOffset |-> e] :
                  t \in StringsUpTo(MaxTextLength), n \in Needles,
                  e \in (-2)..(MaxTextLength + 2)}
  /\ output = NoOutput

CallClosest ==
  /\ output = NoOutput
  /\ output' = <<findClosestMatch(input.text, input.needle, input.expectedOffset)>>
  /\ UNCHANGED <<doc, before, pc, req, resp, updates, loc, input, bulkVars, storeVars>>

NextClosest == CallClosest

SpecClosest == InitClosest /\ [][NextClosest]_vars

\* ------------------------------------------------------------------------
\* applyFixAtOffset applied on its own to the extraction of a document
\* ------------------------------------------------------------------------

InitMapper ==
  /\ AtRest
  /\ input \in {[fn |-> "applyFixAtOffset", doc |-> d, targetOffset |-> o,
                 targetLength |-> l, replacement |-> <<"x">>] :
                  d \in Docs, o \in (-2)..MaxOffset, l \in 0..MaxLength}
  /\ output = NoOutput

\* applyFixAtOffset(segments, fullText, ...) on what extraction returned ex
Mapped(ex) ==
  applyFixAtOffset(ex.segments, ex.fullText, input.targetOffset, input.targetLength,
                   input.replacement, input.doc)

CallMapper ==
  /\ output = NoOutput
  /\ output' = <<Mapped(extractAllTextFromDocWithSources(input.doc, "content"))>>
  /\ UNCHANGED <<doc, before, pc, req, resp, updates, loc, input, bulkVars, storeVars>>

NextMapper == CallMapper

SpecMapper == InitMapper /\ [][NextMapper]_vars

\* ------------------------------------------------------------------------
\* extractAllTextFromDocWithSources applied on its own to a document
\* ------------------------------------------------------------------------

ListItem(children) == Node("listitem", FALSE, <<>>, children, <<>>)

\* leaf below n nested link nodes
RECURSIVE Nest(_, _)
Nest(n, leaf) == IF n = 0 THEN leaf ELSE Link(<<Nest(n - 1, leaf)>>)

\* a block that holds a plain text and, n times, a block of the same shape
RECURSIVE NestBlock(_)
NestBlock(n) ==
  IF n = 0 THEN ObjV(<<Entry("title", StrV(<<"b", "a", "b">>))>>)
  ELSE ObjV(<<Entry("title", StrV(<<"a", "b", "a">>)), Entry("child", NestBlock(n - 1))>>)

\* how many links lie above the innermost text of a deep rich text
NestDepths == {1, 3, 4}

\* the text under the links lies at depth 2 + n of the field value
DeepContents ==
  {RichText(<<Paragraph(<<Text(<<"a", "b">>)>>), Nest(n, Text(<<"b", "a">>))>>) :
     n \in NestDepths}

DeepLayouts ==
  {ArrV(<<NestBlock(n)>>) :
     n \in {BlockMaxDepth - 1, BlockMaxDepth, BlockMaxDepth + 1, BlockMaxDepth + 2}}

\* rich text with a node whose children cannot be iterated
MalformedContents ==
  { RichText(<<NotIterable("paragraph"), Paragraph(<<Text(<<"a", "b">>)>>)>>),
    RichText(<<Paragraph(<<Text(<<"a", "b">>)>>), Heading(<<Link(<<NotIterable("listitem")>>)>>)>>),
    RichText(<<NotIterable("link"), Paragraph(<<Text(<<"b", "a">>)>>)>>),
    RichText(<<NotIterable("code"), ListItem(<<Text(<<"a">>)>>), ListItem(<<Text(<<"b">>)>>)>>) }

\* layouts with null entries, and with a malformed rich text in a block
MalformedLayouts ==
  { ArrV(<<OtherV, Block1>>),
    ArrV(<<Block2, OtherV, OtherV>>),
    ArrV(<<ObjV(<<Entry("title", StrV(<<"a", "b", "c">>)),
                  Entry("richText", LexV(RichText(<<NotIterable("heading")>>)))>>),
           Block2>>) }

ExtractDocs ==
  Docs
  \cup {Doc(DocId, t, Nil, c, Nil, l) :
          t \in {<<>>, <<"a", "b">>}, c \in DeepContents \cup MalformedContents,
          l \in {OtherV, ArrV(<<Block1>>)}}
  \cup {Doc(DocId, t, h, c, Nil, l) :
          t \in {<<>>, <<"a", "b">>}, h \in {Nil, Scalar, HeroText},
          c \in {Nil, RichText(<<Paragraph(<<Text(<<"a", "b">>)>>)>>)},
          l \in DeepLayouts \cup MalformedLayouts \cup {ArrV(<<Block1>>)}}

InitExtract ==
  /\ AtRest
  /\ input \in {[fn |-> "extractAllTextFromDocWithSources", doc |-> d, contentField |-> f] :
                  d \in ExtractDocs, f \in {"content", "body"}}
  /\ output = NoOutput

\* what the caller gets: the value returned, or the exception
Returned(ex) ==
  IF Threw(ex.fullText) THEN [threw |-> TRUE, fullText |-> <<>>, segments |-> <<>>]
  ELSE [threw |-> FALSE, fullText |-> ex.fullText, segments |-> ex.segments]

CallExtract ==
  /\ output = NoOutput
  /\ output' = <<Returned(extractAllTextFromDocWithSources(input.doc, input.contentField))>>
  /\ UNCHANGED <<doc, before, pc, req, resp, updates, loc, input, bulkVars, storeVars>>

NextExtract == CallExtract

SpecExtract == InitExtract /\ [][NextExtract]_vars

\* ------------------------------------------------------------------------
\* extractTextFromLexical applied on its own to a node
\* ------------------------------------------------------------------------

WalkerNodes ==
  Contents \cup DeepContents
  \cup { Scalar,
         Node("", FALSE, <<>>, <<>>, <<>>),
         Text(<<" ", "a", " ">>),
         Code(<<Text(<<"a">>)>>),
         Node("code-block", FALSE, <<>>, <<Text(<<"a">>)>>, <<>>),
         Node("codeBlock", TRUE, <<"a">>, <<>>, <<>>),
         Node("text", FALSE, <<>>, <<>>, <<>>),
         Arr(<<Text(<<"a">>), Nil, Scalar, Text(<<"b">>)>>),
         Link(<<Text(<<"a", " ">>), Text(<<"b">>)>>),
         Node("mark", FALSE, <<>>, <<Text(<<"a">>), Link(<<Text(<<"b">>)>>)>>, <<>>),
         Node("", FALSE, <<>>, <<Text(<<"a">>)>>, <<Paragraph(<<Text(<<"b">>)>>)>>),
         RichText(<<ListItem(<<Text(<<"a">>)>>), ListItem(<<Text(<<"b">>)>>)>>),
         RichText(<<ListItem(<<Paragraph(<<Text(<<"a">>), Text(<<" ", "b">>)>>)>>),
                    Heading(<<Text(<<"c">>)>>), Paragraph(<<>>)>>),
         RichText(<<Paragraph(<<Paragraph(<<Paragraph(<<Text(<<"a">>)>>)>>)>>),
                    Paragraph(<<Text(<<"b">>)>>)>>),
         Paragraph(<<Text(<<"a">>), Code(<<Text(<<"c">>)>>), Text(<<"b">>)>>) }

\* budgets a caller passes, the default among them
MaxDepths == {0, 1, 2, 3, 5, DefaultMaxDepth}

InitWalker ==
  /\ AtRest
  /\ input \in {[fn |-> "extractTextFromLexical", node |-> n, maxDepth |-> m] :
                  n \in WalkerNodes, m \in MaxDepths}
  /\ output = NoOutput

CallWalker ==
  /\ output = NoOutput
  /\ output' = <<extractTextFromLexicalTo(input.node, input.maxDepth)>>
  /\ UNCHANGED <<doc, before, pc, req, resp, updates, loc, input, bulkVars, storeVars>>

NextWalker == CallWalker

SpecWalker == InitWalker /\ [][NextWalker]_vars

\* ------------------------------------------------------------------------
\* filterFalsePositives applied on its own
\* ------------------------------------------------------------------------

MaxIssueCount == 2

\* issues the checkers report: one no filter matches, and one for each filter
FilterIssuePool ==
  { Issue("GRAMMAR", "GRAMMAR", <<"t", "e", "s", "t">>, FALSE, <<"t", "e", "s", "t", " ", "c", "t", "x", "t">>, <<<<"o", "k">>>>),
    Issue("GRAMMAR", "GRAMMAR", <<"t", "e", "s", "t">>, TRUE, <<"t", "e", "s", "t", " ", "c", "t", "x", "t">>, <<<<"o", "k">>>>),
    Issue("WHITESPACE_RULE", "GRAMMAR", <<"t", "e", "s", "t">>, FALSE, <<"t", "e", "s", "t", " ", "c", "t", "x", "t">>, <<<<"o", "k">>>>),
    Issue("CUSTOM_SKIP_RULE", "GRAMMAR", <<"t", "e", "s", "t">>, FALSE, <<"t", "e", "s", "t", " ", "c", "t", "x", "t">>, <<<<"o", "k">>>>),
    Issue("GRAMMAR", "STYLE", <<"t", "e", "s", "t">>, FALSE, <<"t", "e", "s", "t", " ", "c", "t", "x", "t">>, <<<<"o", "k">>>>),
    Issue("GRAMMAR", "CUSTOM_CAT", <<"t", "e", "s", "t">>, FALSE, <<"t", "e", "s", "t", " ", "c", "t", "x", "t">>, <<<<"o", "k">>>>),
    Issue("GRAMMAR", "GRAMMAR", <<"W", "o", "r", "d">>, FALSE, <<"t", "e", "s", "t", " ", "c", "t", "x", "t">>, <<<<"o", "k">>>>),
    Issue("GRAMMAR", "GRAMMAR", <<"w", "o", "r", "d", "s">>, FALSE, <<"t", "e", "s", "t", " ", "c", "t", "x", "t">>, <<<<"o", "k">>>>),
    Issue("GRAMMAR", "MISC", <<"a">>, FALSE, <<"t", "e", "s", "t", " ", "c", "t", "x", "t">>, <<<<"o", "k">>>>),
    Issue("GRAMMAR", "GRAMMAR", <<"a">>, FALSE, <<"t", "e", "s", "t", " ", "c", "t", "x", "t">>, <<<<"o", "k">>>>),
    Issue("GRAMMAR", "GRAMMAR", <<>>, FALSE, <<"t", "e", "s", "t", " ", "c", "t", "x", "t">>, <<<<"o", "k">>>>),
    Issue("GRAMMAR", "GRAMMAR", <<"A", "P", "I">>, FALSE, <<"t", "e", "s", "t", " ", "c", "t", "x", "t">>, <<<<"o", "k">>>>),
    Issue("GRAMMAR", "GRAMMAR", <<"8", "0", "p", "x">>, FALSE, <<"t", "e", "s", "t", " ", "c", "t", "x", "t">>, <<<<"o", "k">>>>),
    Issue("GRAMMAR", "GRAMMAR", <<"X", "y">>, FALSE, <<"t", "e", "s", "t", " ", "c", "t", "x", "t">>, <<<<"X", "y">>>>),
    Issue("GRAMMAR", "GRAMMAR", <<"t", "e", "s", "t">>, FALSE, <<"a", "b">>, <<<<"o", "k">>>>),
    Issue("FR_REPETITION", "GRAMMAR", <<"t", "e", "s", "t">>, FALSE, <<"t", "e", "s", "t", " ", "c", "t", "x", "t">>, <<<<>>>>),
    Issue("GRAMMAR", "GRAMMAR", <<"x", "y">>, FALSE, <<"u", "n", " ", "a", " ", "b", " ", "i", "c", "i">>, <<>>) }

RECURSIVE ListsUpTo(_, _)
ListsUpTo(pool, n) ==
  IF n = 0 THEN {<<>>}
  ELSE ListsUpTo(pool, n - 1) \cup {Append(l, x) : l \in {m \in ListsUpTo(pool, n - 1) : Len(m) = n - 1}, x \in pool}

\* configurations: empty, and with rules, categories and words of its own
FilterConfigs ==
  { Config({}, {}, <<>>),
    Config({"CUSTOM_SKIP_RULE"}, {"CUSTOM_CAT"}, <<<<"W", "O", "R", "D">>>>),
    Config({}, {"STYLE"}, <<<<"T", "e", "s", "t">>, <<"a", " ", "b">>>>) }

\* what loadDictionaryWords returns: lower-cased words
FilterDbWords == {<<>>, <<<<"w", "o", "r", "d">>>>}

InitFilter ==
  /\ AtRest
  /\ input \in {[fn |-> "filterFalsePositives", issues |-> l, config |-> c, dbWords |-> w] :
                  l \in ListsUpTo(FilterIssuePool, MaxIssueCount), c \in FilterConfigs, w \in FilterDbWords}
  /\ output = NoOutput

CallFilter ==
  /\ output = NoOutput
  /\ output' = <<filterFalsePositives(input.issues, input.config, input.dbWords)>>
  /\ UNCHANGED <<doc, before, pc, req, resp, updates, loc, input, bulkVars, storeVars>>

NextFilter == CallFilter

SpecFilter == InitFilter /\ [][NextFilter]_vars

\* ------------------------------------------------------------------------
\* fixInLexicalTree and extractRecursive applied to the same tree
\* ------------------------------------------------------------------------

\* text nodes that carry children or a root, and trees deeper than the
\* smaller of the two budgets
CountNodes ==
  WalkerNodes
  \cup { Node("text", TRUE, <<"a">>, <<Text(<<"b">>)>>, <<>>),
         Node("text", TRUE, <<"a", "b">>, <<>>, <<Paragraph(<<Text(<<"c">>)>>)>>),
         Paragraph(<<Node("text", TRUE, <<"a">>, <<Text(<<"b">>)>>, <<>>), Text(<<"c">>)>>),
         Nest(4, Text(<<"a">>)),
         RichText(<<Paragraph(<<Text(<<"a">>)>>),
                    Nest(3, Node("text", TRUE, <<"b">>, <<Text(<<"c">>)>>, <<>>))>>) }

\* offsets before, inside and past the text
CountOffsets == {-1, 0, 1, 3, MaxOffset}

InitCount ==
  /\ AtRest
  /\ input \in {[fn |-> "fixInLexicalTree", node |-> n, targetOffset |-> o,
                 replacement |-> r, maxDepth |-> m] :
                  n \in CountNodes, o \in CountOffsets, r \in {<<>>, <<"x", "y">>},
                  m \in {2, DefaultMaxDepth}}
  /\ output = NoOutput

\* the two walks of one tree: fixInLexicalTree(node, targetOffset, 1,
\* replacement, 0, 0, maxDepth) and extractRecursive(node, 0, maxDepth)
CallCount ==
  /\ output = NoOutput
  /\ output' = <<[fix |-> fixInLexicalTree(input.node, input.targetOffset, 1,
                                           input.replacement, 0, 0, input.maxDepth),
                  text |-> extractRecursive(input.node, 0, input.maxDepth)]>>
  /\ UNCHANGED <<doc, before, pc, req, resp, updates, loc, input, bulkVars, storeVars>>

NextCount == CallCount

SpecCount == InitCount /\ [][NextCount]_vars

\* ------------------------------------------------------------------------
\* The bulk endpoints and the scans they start, as a state machine
\* ------------------------------------------------------------------------

\* jobs are the ScanJob objects created so far and currentJob the one the
\* module-level variable refers to (0 while it is null); scans[s] is the
\* invocation of runBulkScan started together with jobs[s]; now is Date.now()
\* and ticks how often the clock advanced; http is the last response; calls
\* are the times of the last two calls of checkWithLanguageTool.

MaxScans == 2

MaxTicks == 2

\* the words of a document with text
WordCount == 20

MaxIssues == 1

\* by how much the clock advances at once
Delays == {RATE_LIMIT_DELAY, STALE_TIMEOUT}

\* What the first pass finds: each document by what extractAllTextFromDoc
\* does with it ("throws", "empty" for a text that trims to nothing, "text").
DocLists ==
  { <<"throws", "text">>, <<"empty", "text">>, <<"text", "text">> }

\* the running job is reset by force: true
ForceReset(js, cur, t) ==
  IF cur # 0 /\ js[cur].status = "running"
  THEN [js EXCEPT ![cur].status = "error", ![cur].error = "Force reset by user",
                  ![cur].completedAt = <<t>>]
  ELSE js

\* A faulty test: no request is rejected.
RejectsNever(js, cur, force) == FALSE

\* "if (currentJob?.status === 'running')" without force: the request is
\* rejected
Rejects(js, cur, force) == cur # 0 /\ js[cur].status = "running" /\ ~force

\* createBulkHandler's handler after the user check and resetIfStale(), js
\* being the objects resetIfStale() left
BulkAuthorized(js, force) ==
  IF Rejects(js, currentJob, force)
  THEN /\ http' = Http("POST", 409, "Scan already in progress")
       /\ jobs' = js
       /\ UNCHANGED <<currentJob, scans>>
  ELSE /\ Len(jobs) < MaxScans
       /\ jobs' = Append(ForceReset(js, currentJob, now), NewJob(now))
       /\ currentJob' = Len(jobs) + 1
       /\ scans' = Append(scans, NewScan)
       /\ http' = Http("POST", 200, "Scan started")

\* POST /api/spellcheck/bulk.  The body, read between resetIfStale() and the
\* test of currentJob, is at hand when the request arrives.
BulkHandler(user, force) ==
  /\ IF ~user
     THEN /\ http' = Http("POST", 401, "Unauthorized")
          /\ UNCHANGED <<jobs, currentJob, scans>>
     ELSE BulkAuthorized(resetIfStale(jobs, currentJob, now), force)
  /\ UNCHANGED <<now, ticks, calls, fixVars, storeVars>>

\* GET /api/spellcheck/status
StatusHandler(user) ==
  /\ IF ~user
     THEN /\ http' = Http("GET", 401, "Unauthorized")
          /\ jobs' = jobs
     ELSE /\ jobs' = resetIfStale(jobs, currentJob, now)
          /\ http' = IF currentJob = 0 THEN Http("GET", 200, "idle")
                     ELSE Http("GET", 200, jobs'[currentJob].status)
  /\ UNCHANGED <<currentJob, scans, now, ticks, calls, fixVars, storeVars>>

\* the last two of the times ts
LastTwo(ts) == IF Len(ts) > 2 THEN Tail(ts) ELSE ts

\* scan s ran up to its next await and left r; a call of
\* checkWithLanguageTool it made on the way is recorded
Stepped(s, r) ==
  /\ scans' = [scans EXCEPT ![s] = r.scan]
  /\ jobs' = r.jobs
  /\ calls' = IF r.scan.pc = "check" THEN LastTwo(Append(calls, now)) ELSE calls
  /\ UNCHANGED <<currentJob, now, ticks, http, fixVars, storeVars>>

\* the payload.find calls of the first pass return docs
ScanFound(s, docs) ==
  /\ scans[s].pc = "find"
  /\ Stepped(s, AfterFirstPass(scans[s], jobs, currentJob, docs, now))

\* a payload.find of the first pass rejects: the outer catch ends the scan
ScanFindThrows(s) ==
  /\ scans[s].pc = "find"
  /\ Stepped(s, ScanStep([scans[s] EXCEPT !.pc = "done", !.end = "error"],
                         WriteError(jobs, currentJob, "find", now)))

\* checkWithLanguageTool settles; filter and store follow
ScanChecked(s, outcome, issueCount) ==
  /\ scans[s].pc = "check"
  /\ Stepped(s, AfterCheck(scans[s], jobs, currentJob, outcome, WordCount, issueCount, now))

\* the sleep of scan s ends: the loop goes on with the next document
ScanWake(s) ==
  /\ scans[s].pc = "sleep"
  /\ now >= scans[s].wakeAt
  /\ Stepped(s, ScanFrom(scans[s], jobs, currentJob, scans[s].i + 1, now))

\* time passes
Tick(d) ==
  /\ ticks < MaxTicks
  /\ now' = now + d
  /\ ticks' = ticks + 1
  /\ UNCHANGED <<jobs, currentJob, scans, http, calls, fixVars, storeVars>>

InitBulk ==
  /\ AtRest
  /\ input = NoInput
  /\ output = NoOutput

NextBulk ==
  \/ \E user \in BOOLEAN, force \in BOOLEAN : BulkHandler(user, force)
  \/ \E user \in BOOLEAN : StatusHandler(user)
  \/ \E s \in 1..Len(scans) : \E docs \in DocLists : ScanFound(s, docs)
  \/ \E s \in 1..Len(scans) : ScanFindThrows(s)
  \/ \E s \in 1..Len(scans) : ScanChecked(s, "checkThrows", 0)
  \/ \E s \in 1..Len(scans) : ScanChecked(s, "filterThrows", 0)
  \/ \E s \in 1..Len(scans), n \in 0..MaxIssues : \E o \in {"storeThrows", "stored"} : ScanChecked(s, o, n)
  \/ \E s \in 1..Len(scans) : ScanWake(s)
  \/ \E d \in Delays : Tick(d)

SpecBulk == InitBulk /\ [][NextBulk]_vars

\* ------------------------------------------------------------------------
\* The validate and dictionary endpoints, the afterChange hook, the bulk
\* scan's store and the onIgnore callback as a state machine
\* ------------------------------------------------------------------------

\* records and dictionary are the collections spellcheck-results and
\* spellcheck-dictionary (one document per word, the word unique),
\* cachedWords and cacheTimestamp the module variables of dictionary.ts (<<>>
\* is null), invalidations the number of invalidateDictionaryCache calls made
\* so far, tasks the asynchronous runs, wire the last response of an endpoint.
\* The database calls succeed, a payload.create of a word already stored
\* excepted.

MaxTasks == 3

StoreDocIds == {DocId}

Issue1 == Issue("GRAMMAR", "GRAMMAR", <<"a", "b">>, FALSE, <<"a", "b", " ", "c", "d">>, <<<<"x">>>>)

Issue2 == Issue("AGREEMENT", "GRAMMAR", <<"c", "d">>, FALSE, <<"a", "b", " ", "c", "d">>, <<<<"y">>>>)

\* what checkWithLanguageTool reports
Reported == {<<Issue1>>, <<Issue2, Issue1>>}

\* the words of the body of a dictionary POST, and the ids of a DELETE (a
\* document of spellcheck-dictionary is identified by its word)
AddBodies == {<<>>, <<<<" ">>, <<"A", "b">>>>}

DeleteBodies == {<<>>, <<<<"a", "b">>>>}

CacheDelays == {CACHE_TTL - 1, 1}

\* a run starts
Spawn(task) == Len(tasks) < MaxTasks /\ tasks' = Append(tasks, task)

NewTask(kind, tpc, id) == Task(kind, tpc, id, <<>>, <<>>, 0, <<>>, 0, 0, <<>>)

\* the response of the endpoint whose run of kind ends; hooks, scans and
\* callbacks answer nobody
Answer(kind, status) ==
  CASE kind = "validate" -> Wire("validate", "POST", TRUE, status)
    [] kind = "add" -> Wire("dictionary", "POST", TRUE, status)
    [] kind = "delete" -> Wire("dictionary", "DELETE", TRUE, status)
    [] OTHER -> wire

\* A faulty handler: the body is looked at before the user.
ValidateHandlerBodyFirst(user, id, hasText) ==
  /\ IF ~hasText /\ id = 0
     THEN wire' = Wire("validate", "POST", user, 400) /\ UNCHANGED tasks
     ELSE IF ~user
     THEN wire' = Wire("validate", "POST", FALSE, 401) /\ UNCHANGED tasks
     ELSE Spawn(NewTask("validate", "check", id)) /\ UNCHANGED wire
  /\ UNCHANGED <<records, dictionary, cachedWords, cacheTimestamp, invalidations, fixVars, bulkVars>>

\* POST /api/spellcheck/validate up to checkWithLanguageTool: the body holds
\* a text, the id of a document (0: none), or both
ValidateHandler(user, id, hasText) ==
  /\ IF ~user
     THEN wire' = Wire("validate", "POST", FALSE, 401) /\ UNCHANGED tasks
     ELSE IF ~hasText /\ id = 0
     THEN wire' = Wire("validate", "POST", TRUE, 400) /\ UNCHANGED tasks
     ELSE Spawn(NewTask("validate", "check", id)) /\ UNCHANGED wire
  /\ UNCHANGED <<records, dictionary, cachedWords, cacheTimestamp, invalidations, fixVars, bulkVars>>

\* the afterChange hook of document id, up to checkWithLanguageTool
HookFired(id) ==
  /\ Spawn(NewTask("hook", "check", id))
  /\ UNCHANGED <<records, dictionary, cachedWords, cacheTimestamp, invalidations, wire, fixVars, bulkVars>>

\* the bulk scan's loop at document id, up to checkWithLanguageTool
BulkChecks(id) ==
  /\ Spawn(NewTask("bulk", "check", id))
  /\ UNCHANGED <<records, dictionary, cachedWords, cacheTimestamp, invalidations, wire, fixVars, bulkVars>>

\* filterFalsePositives after loadDictionaryWords returned list: a validate
\* request without id answers, the others call payload.find on the records
Filtered(task, list) ==
  IF task.id = 0 THEN Done(task.kind)
  ELSE [task EXCEPT !.pc = "find", !.list = <<list>>,
                    !.issues = filterFalsePositives(task.issues, PluginConfig, list.words)]

\* run k at time t with the issues reported called loadDictionaryWords
Called(k, reported, t) == [tasks[k] EXCEPT !.issues = reported, !.started = t, !.epoch = invalidations]

\* checkWithLanguageTool settles: filterFalsePositives calls
\* loadDictionaryWords, which serves the cache or calls payload.find
Checked(k, reported) ==
  /\ tasks[k].pc = "check"
  /\ IF CacheHit(cachedWords, cacheTimestamp, now)
     THEN /\ tasks' = [tasks EXCEPT ![k] = Filtered(Called(k, reported, now), cachedWords[1])]
          /\ wire' = IF tasks[k].id = 0 THEN Answer(tasks[k].kind, 200) ELSE wire
     ELSE /\ tasks' = [tasks EXCEPT ![k] = [Called(k, reported, now) EXCEPT !.pc = "load"]]
          /\ UNCHANGED wire
  /\ UNCHANGED <<records, dictionary, cachedWords, cacheTimestamp, invalidations, fixVars, bulkVars>>

\* the database answers the payload.find of loadDictionaryWords
DictionaryRead(k) ==
  /\ tasks[k].pc = "load"
  /\ tasks' = [tasks EXCEPT ![k].pc = "loaded", ![k].list = <<WordList(SetToSeq(dictionary), invalidations)>>]
  /\ UNCHANGED <<records, dictionary, cachedWords, cacheTimestamp, invalidations, wire, fixVars, bulkVars>>

\* loadDictionaryWords resumes after its await: it fills the cache and
\* returns
DictionaryLoaded(k) ==
  /\ tasks[k].pc = "loaded"
  /\ cachedWords' = tasks[k].list
  /\ cacheTimestamp' = tasks[k].started
  /\ tasks' = [tasks EXCEPT ![k] = Filtered(tasks[k], tasks[k].list[1])]
  /\ wire' = IF tasks[k].id = 0 THEN Answer(tasks[k].kind, 200) ELSE wire
  /\ UNCHANGED <<records, dictionary, invalidations, fixVars, bulkVars>>

\* the run after its find on the results returned document e (0: none) with
\* the ignoredIssues ignored: the bulk scan does not look at them
AfterResultFind(task, e, ignored) ==
  IF task.kind = "bulk" THEN [task EXCEPT !.pc = "store", !.existing = e, !.ignoredIssues = ignored]
  ELSE [task EXCEPT !.pc = "store", !.existing = e, !.ignoredIssues = ignored,
                    !.issues = WithoutIgnored(task.issues, ignored)]

\* the payload.find on spellcheck-results returns
ResultFound(k, e) ==
  /\ tasks[k].kind \in {"validate", "hook", "bulk"}
  /\ tasks[k].pc = "find"
  /\ e \in Existing(records, tasks[k].id, CollectionSlug)
  /\ tasks' = [tasks EXCEPT ![k] = AfterResultFind(tasks[k], e, IF e = 0 THEN <<>> ELSE records[e].ignoredIssues)]
  /\ UNCHANGED <<records, dictionary, cachedWords, cacheTimestamp, invalidations, wire, fixVars, bulkVars>>

\* payload.update with the run's resultData: the bulk scan's holds no
\* ignoredIssues
UpdatedRow(row, task) ==
  IF task.kind = "bulk" THEN [row EXCEPT !.issues = task.issues]
  ELSE [row EXCEPT !.issues = task.issues, !.ignoredIssues = task.ignoredIssues]

\* the payload.update or payload.create of the result is done
ResultStored(k) ==
  /\ tasks[k].pc = "store"
  /\ records' = IF tasks[k].existing # 0
                THEN [records EXCEPT ![tasks[k].existing] = UpdatedRow(@, tasks[k])]
                ELSE Append(records, ResultRow(tasks[k].id, CollectionSlug, tasks[k].issues, tasks[k].ignoredIssues))
  /\ tasks' = [tasks EXCEPT ![k] = Done(tasks[k].kind)]
  /\ wire' = Answer(tasks[k].kind, 200)
  /\ UNCHANGED <<dictionary, cachedWords, cacheTimestamp, invalidations, fixVars, bulkVars>>

\* onIgnore of issue i of records document e, up to its GET
OnIgnore(e, i) ==
  /\ e \in 1..Len(records)
  /\ i \in 1..Len(records[e].issues)
  /\ Spawn([NewTask("ignore", "get", e) EXCEPT !.issues = <<records[e].issues[i]>>])
  /\ UNCHANGED <<records, dictionary, cachedWords, cacheTimestamp, invalidations, wire, fixVars, bulkVars>>

\* the GET of onIgnore returned ignored: unless the issue is there, a PATCH
\* follows
AfterIgnoreFetch(task, ignored) ==
  IF IsIgnored(task.issues[1], ignored) THEN Done("ignore")
  ELSE [task EXCEPT !.pc = "patch", !.ignoredIssues = ignored]

IgnoreFetched(k) ==
  /\ tasks[k].pc = "get"
  /\ tasks' = [tasks EXCEPT ![k] = AfterIgnoreFetch(tasks[k], records[tasks[k].id].ignoredIssues)]
  /\ UNCHANGED <<records, dictionary, cachedWords, cacheTimestamp, invalidations, wire, fixVars, bulkVars>>

\* the PATCH of onIgnore is done
IgnorePatched(k) ==
  /\ tasks[k].pc = "patch"
  /\ records' = [records EXCEPT ![tasks[k].id].ignoredIssues = Append(tasks[k].ignoredIssues, Ignored(tasks[k].issues[1]))]
  /\ tasks' = [tasks EXCEPT ![k] = Done("ignore")]
  /\ UNCHANGED <<dictionary, cachedWords, cacheTimestamp, invalidations, wire, fixVars, bulkVars>>

\* the loop of the add handler from words on: up to its payload.find, or
\* to the end of the handler
AddFrom(task, words) ==
  IF SkipBlank(words) = <<>> THEN Done("add")
  ELSE [task EXCEPT !.pc = "find", !.words = SkipBlank(words)]

\* a dictionary handler went on as task: at its end it calls
\* invalidateDictionaryCache() and answers
Ends(task) ==
  IF task.pc = "done"
  THEN /\ cachedWords' = <<>>
       /\ cacheTimestamp' = 0
       /\ invalidations' = invalidations + 1
       /\ wire' = Answer(task.kind, 200)
  ELSE UNCHANGED <<cachedWords, cacheTimestamp, invalidations, wire>>

\* POST /api/spellcheck/dictionary up to its first payload.find
DictionaryAddHandler(user, body) ==
  /\ IF ~user
     THEN /\ wire' = Wire("dictionary", "POST", FALSE, 401)
          /\ UNCHANGED <<tasks, cachedWords, cacheTimestamp, invalidations>>
     ELSE IF body = <<>>
     THEN /\ wire' = Wire("dictionary", "POST", TRUE, 400)
          /\ UNCHANGED <<tasks, cachedWords, cacheTimestamp, invalidations>>
     ELSE /\ Spawn(AddFrom(NewTask("add", "find", 0), body))
          /\ Ends(AddFrom(NewTask("add", "find", 0), body))
  /\ UNCHANGED <<records, dictionary, fixVars, bulkVars>>

\* the payload.find of the add handler returns: the word is skipped or
\* payload.create is called
AddFound(k) ==
  /\ tasks[k].kind = "add"
  /\ tasks[k].pc = "find"
  /\ tasks' = [tasks EXCEPT ![k] = IF Cleaned(Head(tasks[k].words)) \in dictionary
                                  THEN AddFrom(tasks[k], Tail(tasks[k].words))
                                  ELSE [tasks[k] EXCEPT !.pc = "create"]]
  /\ Ends(tasks'[k])
  /\ UNCHANGED <<records, dictionary, fixVars, bulkVars>>

\* the payload.create of the add handler is done, or has thrown on a word
\* already stored
AddCreated(k) ==
  /\ tasks[k].pc = "create"
  /\ dictionary' = dictionary \cup {Cleaned(Head(tasks[k].words))}
  /\ tasks' = [tasks EXCEPT ![k] = AddFrom(tasks[k], Tail(tasks[k].words))]
  /\ Ends(tasks'[k])
  /\ UNCHANGED <<records, fixVars, bulkVars>>

\* DELETE /api/spellcheck/dictionary up to its first payload.delete
DictionaryDeleteHandler(user, ids) ==
  /\ IF ~user
     THEN wire' = Wire("dictionary", "DELETE", FALSE, 401) /\ UNCHANGED tasks
     ELSE IF ids = <<>>
     THEN wire' = Wire("dictionary", "DELETE", TRUE, 400) /\ UNCHANGED tasks
     ELSE Spawn([NewTask("delete", "delete", 0) EXCEPT !.words = ids]) /\ UNCHANGED wire
  /\ UNCHANGED <<records, dictionary, cachedWords, cacheTimestamp, invalidations, fixVars, bulkVars>>

\* a payload.delete of the delete handler is done, or has thrown on an id
\* not stored
Deleted(k) ==
  /\ tasks[k].pc = "delete"
  /\ dictionary' = dictionary \ {Head(tasks[k].words)}
  /\ tasks' = [tasks EXCEPT ![k] = IF Tail(tasks[k].words) = <<>> THEN Done("delete")
                                  ELSE [tasks[k] EXCEPT !.words = Tail(tasks[k].words)]]
  /\ Ends(tasks'[k])
  /\ UNCHANGED <<records, fixVars, bulkVars>>

\* GET /api/spellcheck/dictionary
DictionaryListHandler(user) ==
  /\ wire' = Wire("dictionary", "GET", user, IF user THEN 200 ELSE 401)
  /\ UNCHANGED <<records, dictionary, cachedWords, cacheTimestamp, invalidations, tasks, fixVars, bulkVars>>

\* GET /api/spellcheck/collections
CollectionsHandler(user) ==
  /\ wire' = Wire("collections", "GET", user, IF user THEN 200 ELSE 401)
  /\ UNCHANGED <<records, dictionary, cachedWords, cacheTimestamp, invalidations, tasks, fixVars, bulkVars>>

InitStore ==
  /\ AtRest
  /\ input = NoInput
  /\ output = NoOutput

\* The scans of a document and onIgnore, for an authenticated user: the
\* validate endpoint, the afterChange hook and the bulk scan's loop find and
\* store their results, the callback reads and patches ignoredIssues.
NextResults ==
  \/ \E id \in StoreDocIds \cup {0} : ValidateHandler(TRUE, id, TRUE)
  \/ \E id \in StoreDocIds : HookFired(id)
  \/ \E id \in StoreDocIds : BulkChecks(id)
  \/ \E k \in 1..Len(tasks) : \E reported \in Reported : Checked(k, reported)
  \/ \E k \in 1..Len(tasks) : DictionaryRead(k)
  \/ \E k \in 1..Len(tasks) : DictionaryLoaded(k)
  \/ \E k \in 1..Len(tasks) : \E e \in 0..Len(records) : ResultFound(k, e)
  \/ \E k \in 1..Len(tasks) : ResultStored(k)
  \/ \E e \in 1..Len(records) : \E i \in 1..2 : OnIgnore(e, i)
  \/ \E k \in 1..Len(tasks) : IgnoreFetched(k)
  \/ \E k \in 1..Len(tasks) : IgnorePatched(k)

SpecResults == InitStore /\ [][NextResults]_vars

\* The dictionary and its cache, for an authenticated user: the add and
\* delete endpoints, and validate requests for a text, whose filter calls
\* loadDictionaryWords.
NextDictionary ==
  \/ ValidateHandler(TRUE, 0, TRUE)
  \/ \E k \in 1..Len(tasks) : \E reported \in Reported : Checked(k, reported)
  \/ \E k \in 1..Len(tasks) : DictionaryRead(k)
  \/ \E k \in 1..Len(tasks) : DictionaryLoaded(k)
  \/ \E body \in AddBodies : DictionaryAddHandler(TRUE, body)
  \/ \E k \in 1..Len(tasks) : AddFound(k)
  \/ \E k \in 1..Len(tasks) : AddCreated(k)
  \/ \E ids \in DeleteBodies : DictionaryDeleteHandler(TRUE, ids)
  \/ \E k \in 1..Len(tasks) : Deleted(k)
  \/ \E d \in CacheDelays : Tick(d)

SpecDictionary == InitStore /\ [][NextDictionary]_vars

\* ------------------------------------------------------------------------
\* The eight endpoints together
\* ------------------------------------------------------------------------

MaxRequests == 2

EndpointDocs ==
  {Doc(DocId, <<"a", "b">>, HeroText, RichText(<<Paragraph(<<Text(<<"a", "b", " ", "a">>)>>)>>), Nil, l) : l \in Layouts}

\* requests to the fix endpoint, each with and without a user
EndpointRequests ==
  {[r EXCEPT !.user = u] :
     r \in OtherRequests \cup {Request(TRUE, DocId, CollectionSlug, <<"a", "b">>, TRUE, <<"x">>, <<0>>, <<2>>, "")},
     u \in BOOLEAN}

\* the requests that were let in so far: the fix request, the bulk requests
\* that started a scan, the validate and dictionary requests that started a
\* run
Admitted == (IF pc = "done" THEN 1 ELSE 0) + Len(jobs) + Len(tasks)

InitEndpoints ==
  /\ doc \in EndpointDocs
  /\ before = doc
  /\ pc = "idle"
  /\ req = NoRequest
  /\ resp = Response(0, "", 0, "")
  /\ updates = <<>>
  /\ loc = Early("idle", doc)
  /\ input = NoInput
  /\ output = NoOutput
  /\ BulkAtRest
  /\ StoreAtRest

\* A request arrives at one of the endpoints while fewer than MaxRequests
\* were let in, or a handler resumes after an await.  The scans the bulk
\* endpoint starts do not run here (SpecBulk), nor do hooks (SpecResults).
NextEndpoints ==
  \/ Admitted < MaxRequests /\ \E r \in EndpointRequests : Fix(r)
  \/ Admitted < MaxRequests /\ \E r \in EndpointRequests : FixUpdateThrows(r)
  \/ Admitted < MaxRequests /\ \E user \in BOOLEAN, force \in BOOLEAN : BulkHandler(user, force)
  \/ Admitted < MaxRequests /\ \E user \in BOOLEAN : StatusHandler(user)
  \/ Admitted < MaxRequests /\ \E user \in BOOLEAN, id \in StoreDocIds \cup {0}, hasText \in BOOLEAN : ValidateHandler(user, id, hasText)
  \/ Admitted < MaxRequests /\ \E user \in BOOLEAN, body \in AddBodies : DictionaryAddHandler(user, body)
  \/ Admitted < MaxRequests /\ \E user \in BOOLEAN, ids \in DeleteBodies : DictionaryDeleteHandler(user, ids)
  \/ Admitted < MaxRequests /\ \E user \in BOOLEAN : DictionaryListHandler(user)
  \/ Admitted < MaxRequests /\ \E user \in BOOLEAN : CollectionsHandler(user)
  \/ \E k \in 1..Len(tasks) : \E reported \in Reported : Checked(k, reported)
  \/ \E k \in 1..Len(tasks) : DictionaryRead(k)
  \/ \E k \in 1..Len(tasks) : DictionaryLoaded(k)
  \/ \E k \in 1..Len(tasks) : \E e \in 0..Len(records) : ResultFound(k, e)
  \/ \E k \in 1..Len(tasks) : ResultStored(k)
  \/ \E k \in 1..Len(tasks) : AddFound(k)
  \/ \E k \in 1..Len(tasks) : AddCreated(k)
  \/ \E k \in 1..Len(tasks) : Deleted(k)
  \/ Tick(STALE_TIMEOUT)

SpecEndpoints == InitEndpoints /\ [][NextEndpoints]_vars

\* ------------------------------------------------------------------------
\* Vocabulary of the properties
\* ------------------------------------------------------------------------

\* the handler fetched the document and extracted its text
Extracted == pc = "done" /\ loc.stage \in {"notfixed", "fixed"}

\* start_i: the lengths of the segments before segment i, plus one
\* separator for each of them
RECURSIVE StartOf(_, _)
StartOf(segments, i) ==
  IF i = 1 THEN 0
  ELSE StartOf(segments, i - 1) + Len(segments[i - 1].text) + 1

\* the segments joined with the separator, before trim()
RawJoined(segments) == JoinNL(SegTexts(segments))

\* the number of leading characters trim() removes from the joined segments
TrimDelta(segments) == LeadingWS(RawJoined(segments))

\* segment i lies wholly inside the part of the joined segments trim() keeps
InsideTrimmed(segments, i) ==
  /\ StartOf(segments, i) >= TrimDelta(segments)
  /\ StartOf(segments, i) + Len(segments[i].text)
       <= Len(RawJoined(segments)) - TrailingWS(RawJoined(segments))

\* every text of the nodes of a rich-text value, own text first, then the
\* children, then root
RECURSIVE NodeTexts(_), NodeListTexts(_, _)
NodeListTexts(items, i) ==
  IF i > Len(items) THEN <<>> ELSE NodeTexts(items[i]) \o NodeListTexts(items, i + 1)

NodeTexts(node) ==
  IF node.kind = "nil" THEN <<>>
  ELSE (IF node.hasText THEN <<node.text>> ELSE <<>>)
       \o NodeListTexts(node.children, 1)
       \o (IF node.root # <<>> THEN NodeTexts(node.root[1]) ELSE <<>>)

\* every string held by a value of a layout block
RECURSIVE ValueStrings(_), EntryStrings(_, _)
EntryStrings(v, i) ==
  IF i > Len(v.e) THEN <<>> ELSE ValueStrings(v.e[i].val) \o EntryStrings(v, i + 1)

ValueStrings(v) ==
  IF v.k = "str" THEN <<v.s>>
  ELSE IF v.k = "lex" THEN NodeTexts(v.n)
  ELSE IF v.k \in {"obj", "arr"} THEN EntryStrings(v, 1)
  ELSE <<>>

\* every string of the document tree, in a fixed order
AllStrings(d) ==
  <<d.title>> \o NodeTexts(d.hero) \o NodeTexts(d.content) \o NodeTexts(d.body)
  \o ValueStrings(d.layout)

\* the positions of AllStrings at which two documents of one shape differ
ChangedStrings(d1, d2) ==
  {i \in 1..Len(AllStrings(d1)) : AllStrings(d1)[i] # AllStrings(d2)[i]}

\* the string assignments the handler's paths made on the fetched document
Writes == loc.pathResult.writes + loc.legacyResult.writes

\* the texts of the nodes that are, or lie inside, a node of a SKIP_TYPES type
RECURSIVE SkippedTexts(_, _), SkippedListTexts(_, _, _)
SkippedListTexts(items, i, inside) ==
  IF i > Len(items) THEN <<>>
  ELSE SkippedTexts(items[i], inside) \o SkippedListTexts(items, i + 1, inside)

SkippedTexts(node, inside) ==
  IF node.kind = "nil" THEN <<>>
  ELSE (IF node.hasText /\ (inside \/ node.type \in SKIP_TYPES) THEN <<node.text>> ELSE <<>>)
       \o SkippedListTexts(node.children, 1, inside \/ node.type \in SKIP_TYPES)
       \o (IF node.root # <<>>
           THEN SkippedTexts(node.root[1], inside \/ node.type \in SKIP_TYPES)
           ELSE <<>>)

RECURSIVE SkippedValueTexts(_), SkippedEntryTexts(_, _)
SkippedEntryTexts(v, i) ==
  IF i > Len(v.e) THEN <<>>
  ELSE SkippedValueTexts(v.e[i].val) \o SkippedEntryTexts(v, i + 1)

SkippedValueTexts(v) ==
  IF v.k = "lex" THEN SkippedTexts(v.n, FALSE)
  ELSE IF v.k \in {"obj", "arr"} THEN SkippedEntryTexts(v, 1)
  ELSE <<>>

\* every text of the document that lies inside a SKIP_TYPES node
SkippedStrings(d) ==
  SkippedTexts(d.hero, FALSE) \o SkippedTexts(d.content, FALSE)
  \o SkippedTexts(d.body, FALSE) \o SkippedValueTexts(d.layout)

\* a rich-text value with the content of its SKIP_TYPES nodes removed
RECURSIVE UnskippedNode(_)
UnskippedNode(node) ==
  IF node.kind = "nil" THEN node
  ELSE IF node.kind = "obj" /\ node.type \in SKIP_TYPES
    THEN [node EXCEPT !.hasText = FALSE, !.text = <<>>, !.children = <<>>, !.root = <<>>]
  ELSE [node EXCEPT
          !.children = [i \in 1..Len(node.children) |-> UnskippedNode(node.children[i])],
          !.root = IF node.root = <<>> THEN <<>> ELSE <<UnskippedNode(node.root[1])>>]

RECURSIVE UnskippedValue(_)
UnskippedValue(v) ==
  IF v.k = "lex" THEN LexV(UnskippedNode(v.n))
  ELSE IF v.k \in {"obj", "arr"}
    THEN [v EXCEPT !.e = [i \in 1..Len(v.e) |->
                            [v.e[i] EXCEPT !.val = UnskippedValue(v.e[i].val)]]]
  ELSE v

\* the document with the content of every SKIP_TYPES node removed
UnskippedDoc(d) ==
  [d EXCEPT !.hero = UnskippedNode(d.hero), !.content = UnskippedNode(d.content),
            !.body = UnskippedNode(d.body), !.layout = UnskippedValue(d.layout)]

\* Where the walker takes each character of extractRecursive(node) from: for
\* a character of a text node, hit is the path of that node (child indices
\* from the walked node down, 0 for a step into root) and pos the index in
\* its text; NoChar for the line break after a block element.
NoChar == [hit |-> <<>>, pos |-> -1]

RECURSIVE attributed(_, _, _, _), attributedItems(_, _, _, _, _)
attributedItems(items, i, depth, maxDepth, path) ==
  IF i > Len(items) THEN <<>>
  ELSE attributed(items[i], depth, maxDepth, path \o <<i>>)
       \o attributedItems(items, i + 1, depth, maxDepth, path)

attributed(node, depth, maxDepth, path) ==
  IF node.kind = "nil" \/ depth > maxDepth THEN <<>>
  ELSE IF node.kind # "obj" /\ node.kind # "arr" THEN <<>>
  ELSE IF node.kind = "obj" /\ node.type \in SKIP_TYPES THEN <<>>
  ELSE
    (IF node.type = "text" /\ node.hasText
     THEN [i \in 1..Len(node.text) |-> [hit |-> path, pos |-> i - 1]]
     ELSE <<>>)
    \o attributedItems(node.children, 1, depth + 1, maxDepth, path)
    \o (IF node.type \in BlockTypes THEN <<NoChar>>
        ELSE IF node.root # <<>>
          THEN attributed(node.root[1], depth + 1, maxDepth, path \o <<0>>)
        ELSE <<>>)

\* the rich-text values of a document: hero, content, body and those of layout
RECURSIVE ValueRichTexts(_), EntryRichTexts(_, _)
EntryRichTexts(v, i) ==
  IF i > Len(v.e) THEN <<>> ELSE ValueRichTexts(v.e[i].val) \o EntryRichTexts(v, i + 1)

ValueRichTexts(v) ==
  IF v.k = "lex" THEN <<v.n>>
  ELSE IF v.k \in {"obj", "arr"} THEN EntryRichTexts(v, 1)
  ELSE <<>>

RichTexts(d) == <<d.hero, d.content, d.body>> \o ValueRichTexts(d.layout)

\* original occurs in no string of the document tree, and in the walk of no
\* rich-text value of it
OccursNowhere(d, original) ==
  /\ \A i \in 1..Len(AllStrings(d)) : ~Includes(AllStrings(d)[i], original)
  /\ \A i \in 1..Len(RichTexts(d)) :
       ~Includes(extractRecursive(RichTexts(d)[i], 0, DefaultMaxDepth), original)

NoWhiteSpace(s) == \A i \in 1..Len(s) : s[i] \notin WhiteSpace

\* the value of a top-level field
FieldValue(d, f) ==
  IF f = "title" THEN d.title
  ELSE IF f = "hero" THEN d.hero
  ELSE IF f = "layout" THEN d.layout
  ELSE DocField(d, f)

TopFields == {"title", "hero", "content", "body", "layout"}

\* the top-level fields whose values differ between two documents
DirtyFields(d1, d2) == {f \in TopFields : FieldValue(d1, f) # FieldValue(d2, f)}

\* the start indices of the occurrences of needle in text
OccurrenceSet(text, needle) == {i \in 0..Len(text) : MatchAt(text, needle, i)}

\* ------------------------------------------------------------------------
\* Properties
\* ------------------------------------------------------------------------

\* C1: exact fix round-trip.  When applyFixAtOffset was called at an offset o
\* with a length L such that fullText.slice(o, o + L) is the text to replace
\* (the verified request offset, or the offset found by the search with
\* L = original.length) and with a non-empty replacement holding no white
\* space, and it reported fixed, then extracting the mutated document again
\* yields oldFullText.slice(0, o) + replacement + oldFullText.slice(o + L).
C1_ExactFixRoundTrip ==
  (/\ pc = "done"
   /\ loc.path \in {"offset", "search"}
   /\ loc.pathResult.fixed
   /\ req.replacement # <<>>
   /\ NoWhiteSpace(req.replacement))
  => extractAllTextFromDocWithSources(loc.pathResult.doc, loc.contentField).fullText
       = Slice(loc.fullText, 0, loc.target) \o req.replacement
         \o SliceFrom(loc.fullText, loc.target + loc.targetLength)

\* C2: for a rich-text segment and a local offset k that addresses a text
\* character of segment.text, fixInLexicalTree(source.data, k, ...) splices
\* the text node from which the walker took the character at index k of
\* segment.text, at that character; segment.text being the walk with its
\* leading white space trimmed, that character is the one at index
\* k + (number of trimmed leading characters) of the walk.
C2_SpliceAtAttributedCharacter ==
  (/\ pc = "done"
   /\ loc.pathResult.seg > 0
   /\ loc.segments[loc.pathResult.seg].source.type = "lexical")
  => LET source == loc.segments[loc.pathResult.seg].source
         data   == SourceData(before, source)
         lead   == LeadingWS(extractRecursive(data, 0, DefaultMaxDepth))
         at     == attributed(data, 0, DefaultMaxDepth, <<>>)[loc.pathResult.localOffset + lead + 1]
     IN  at.pos >= 0
         => /\ loc.pathResult.fixed
            /\ loc.pathResult.hit = at.hit
            /\ loc.pathResult.pos = at.pos

\* C3: skip invariant.  The text inside a node whose type is in SKIP_TYPES
\* contributes nothing to fullText (the extraction is that of the document
\* with the content of these nodes removed), and no path of the handler
\* modifies it: after the offset, search and legacy paths ran, the texts
\* inside SKIP_TYPES nodes are what they were.
C3_SkipInvariant ==
  Extracted
  => /\ loc.fullText
          = extractAllTextFromDocWithSources(UnskippedDoc(before), loc.contentField).fullText
     /\ SkippedStrings(loc.result.doc) = SkippedStrings(before)

\* C4: at most one splice or replace per request, the offset, search and
\* legacy paths taken together.  When the response reports success with
\* fixesApplied 1 exactly one string assignment was made and exactly one
\* string of the stored document differs; otherwise the stored document is
\* unchanged, and when the response reports success: false no assignment was
\* made at all.  A path that reported fixed: false left the document as it
\* found it.
C4_AtMostOneSplice ==
  pc = "done"
  => /\ Writes <= 1
     /\ Len(AllStrings(loc.result.doc)) = Len(AllStrings(before))
     /\ Cardinality(ChangedStrings(before, loc.result.doc)) = Writes
     /\ (resp.success = "true"
         => /\ resp.fixesApplied = 1
            /\ Writes = 1
            /\ doc = loc.result.doc
            /\ Cardinality(ChangedStrings(before, doc)) = 1)
     /\ (resp.success # "true" => doc = before)
     /\ (resp.success = "false"
         => /\ resp.fixesApplied = 0
            /\ Writes = 0
            /\ loc.result.doc = before)
     /\ (~loc.pathResult.fixed
         => loc.pathResult.writes = 0 /\ loc.pathResult.doc = before)
     /\ (~loc.legacyResult.fixed
         => loc.legacyResult.writes = 0 /\ loc.legacyResult.doc = loc.pathResult.doc)

\* C4 witness: the verified-offset path reported fixed: false and the legacy
\* fallback then made the request's one replacement.
C4_Witness ==
  /\ pc = "done"
  /\ resp.success = "true"
  /\ loc.path = "offset"
  /\ ~loc.pathResult.fixed
  /\ loc.legacyResult.writes = 1

\* C5: not-found safety.  If original occurs nowhere in the document tree
\* (in no string of it, nor in the text of any one rich-text value), then
\* whatever offset and length the request carries, the handler answers
\* success: false with fixesApplied 0, the document is as it was, and no
\* payload.update is issued.
C5_NotFoundSafety ==
  (Extracted /\ OccursNowhere(before, req.original))
  => /\ resp = Response(200, "false", 0, "")
     /\ loc.result.doc = before
     /\ doc = before
     /\ updates = <<>>

\* C6: findClosestMatch returns -1 iff needle is empty or does not occur in
\* text; otherwise it returns the start of an occurrence of needle
\* (overlapping ones included) that minimises |i - expectedOffset|, the
\* lowest such index when several are equally close.
C6_NearestOccurrence ==
  output # NoOutput
  => LET found == output[1]
         occ   == IF input.needle = <<>> THEN {}
                  ELSE OccurrenceSet(input.text, input.needle)
     IN  /\ (found = -1) <=> (input.needle = <<>> \/ occ = {})
         /\ found # -1
            => /\ found \in occ
               /\ \A i \in occ :
                    /\ Abs(found - input.expectedOffset) <= Abs(i - input.expectedOffset)
                    /\ Abs(found - input.expectedOffset) = Abs(i - input.expectedOffset)
                       => found <= i

\* C6 witness: two occurrences are equally close to expectedOffset, nearer
\* than the first occurrence of all, and the lower of the two was returned.
C6_Witness ==
  /\ output # NoOutput
  /\ \E i, j, k \in OccurrenceSet(input.text, input.needle) :
       /\ input.needle # <<>>
       /\ k < i /\ i < j
       /\ Abs(i - input.expectedOffset) = Abs(j - input.expectedOffset)
       /\ Abs(i - input.expectedOffset) < Abs(k - input.expectedOffset)
       /\ output[1] = i

\* C7 as stated: for every segment i of the extraction,
\* fullText.slice(start_i, start_i + len(text_i)) = text_i.
C7_SegmentAddressingAsStated ==
  Extracted
  => \A i \in 1..Len(loc.segments) :
       Slice(loc.fullText, StartOf(loc.segments, i),
             StartOf(loc.segments, i) + Len(loc.segments[i].text))
         = loc.segments[i].text

\* C7, amended: start_i addresses segment i in the joined segments before
\* trim().  For every segment i that lies inside the part trim() keeps,
\* fullText.slice(start_i - trimDelta, start_i - trimDelta + len(text_i))
\* = text_i, trimDelta being the number of leading characters trim()
\* removed; the statement with start_i itself holds when trim() removes
\* nothing.
C7_SegmentAddressing ==
  Extracted
  => /\ \A i \in 1..Len(loc.segments) :
          InsideTrimmed(loc.segments, i)
          => Slice(loc.fullText, StartOf(loc.segments, i) - TrimDelta(loc.segments),
                   StartOf(loc.segments, i) - TrimDelta(loc.segments)
                     + Len(loc.segments[i].text))
               = loc.segments[i].text
     /\ Len(loc.fullText) = Len(RawJoined(loc.segments))
        => \A i \in 1..Len(loc.segments) :
             Slice(loc.fullText, StartOf(loc.segments, i),
                   StartOf(loc.segments, i) + Len(loc.segments[i].text))
               = loc.segments[i].text

\* C7 witness: trim() removed leading characters of the joined segments, and
\* a second segment lies inside the part it kept.
C7_Witness ==
  /\ Extracted
  /\ TrimDelta(loc.segments) > 0
  /\ Len(loc.segments) >= 2
  /\ InsideTrimmed(loc.segments, 2)

\* C8: applyFixAtOffset dispatches to the one segment i with
\* start_i <= offset + trimDelta < start_i + len(text_i) and passes
\* localOffset = offset + trimDelta - start_i; when no segment's range holds
\* offset + trimDelta (a separator, a negative offset, one past the end) it
\* returns fixed: false and mutates nothing.
C8_OffsetMapper ==
  output # NoOutput
  => LET segments == extractAllTextFromDocWithSources(input.doc, "content").segments
         raw      == input.targetOffset + TrimDelta(segments)
         holders  == {i \in 1..Len(segments) :
                        /\ StartOf(segments, i) <= raw
                        /\ raw < StartOf(segments, i) + Len(segments[i].text)}
     IN  IF holders = {}
         THEN /\ ~output[1].fixed
              /\ output[1].seg = 0
              /\ output[1].writes = 0
              /\ output[1].doc = input.doc
         ELSE /\ Cardinality(holders) = 1
              /\ output[1].seg \in holders
              /\ output[1].localOffset = raw - StartOf(segments, output[1].seg)

\* C8 witness: trim() removed leading characters and the call was dispatched
\* to a segment after the first.
C8_Witness ==
  /\ output # NoOutput
  /\ TrimDelta(extractAllTextFromDocWithSources(input.doc, "content").segments) > 0
  /\ output[1].seg >= 2
  /\ output[1].fixed

\* C9: minimal persistence.  On a successful fix exactly one payload.update
\* was issued, its data has exactly one top-level key, that key is the one
\* top-level field whose value the fix changed, and the data is that field's
\* value; when the fix was not made (success: false, or a 4xx answer) no
\* payload.update was issued.
C9_MinimalPersistence ==
  pc = "done"
  => /\ (resp.success = "true"
         => /\ Len(updates) = 1
            /\ Cardinality(DOMAIN updates[1]) = 1
            /\ DOMAIN updates[1] = DirtyFields(before, loc.result.doc)
            /\ \A f \in DOMAIN updates[1] : updates[1][f] = FieldValue(loc.result.doc, f)
            /\ DirtyFields(before, doc) = DOMAIN updates[1])
     /\ (resp.success = "false" \/ resp.status \in {400, 401, 404} => updates = <<>>)

\* C9 witness: a successful fix inside a layout block, saved as layout alone.
C9_Witness ==
  /\ pc = "done"
  /\ resp.success = "true"
  /\ Len(updates) = 1
  /\ DOMAIN updates[1] = {"layout"}
  /\ before.title # <<>>
  /\ before.content # Nil

\* C10: the method of a successful fix names the path that made the
\* mutation: "offset" iff the splice was made by applyFixAtOffset at the
\* request's verified offset, "search" iff it was made at the offset
\* findClosestMatch found, "legacy" iff the replacement was made by
\* legacyFixSubstring, also when an offset was supplied and the offset or
\* search path failed.
C10_MethodNamesThePath ==
  (pc = "done" /\ resp.success = "true")
  => /\ resp.method \in {"offset", "search", "legacy"}
     /\ (resp.method = "offset") <=> (loc.path = "offset" /\ loc.pathResult.writes = 1)
     /\ (resp.method = "search") <=> (loc.path = "search" /\ loc.pathResult.writes = 1)
     /\ (resp.method = "legacy") <=> (loc.legacyResult.writes = 1)

\* C10 witness: offset and length were supplied, the search path reported
\* fixed: false, and the fix made by the fallback is reported as "legacy".
C10_Witness ==
  /\ pc = "done"
  /\ resp.success = "true"
  /\ loc.path \in {"offset", "search"}
  /\ ~loc.pathResult.fixed
  /\ resp.method = "legacy"

\* the texts of the text nodes of a rich-text value, own text first, then
\* the children, then root
RECURSIVE TextNodeTexts(_), TextNodeListTexts(_, _)
TextNodeListTexts(items, i) ==
  IF i > Len(items) THEN <<>>
  ELSE TextNodeTexts(items[i]) \o TextNodeListTexts(items, i + 1)

TextNodeTexts(node) ==
  IF node.kind = "nil" THEN <<>>
  ELSE (IF node.type = "text" /\ node.hasText THEN <<node.text>> ELSE <<>>)
       \o TextNodeListTexts(node.children, 1)
       \o (IF node.root # <<>> THEN TextNodeTexts(node.root[1]) ELSE <<>>)

\* the strings of a layout value that stand under a PLAIN_TEXT_KEYS key or in
\* a text node of a rich-text value, in Object.entries order
RECURSIVE ProseStrings(_), ProseEntryStrings(_, _)
ProseEntryStrings(v, i) ==
  IF i > Len(v.e) THEN <<>>
  ELSE (IF v.e[i].val.k = "str"
        THEN (IF v.k = "obj" /\ v.e[i].key \in PLAIN_TEXT_KEYS THEN <<v.e[i].val.s>> ELSE <<>>)
        ELSE ProseStrings(v.e[i].val))
       \o ProseEntryStrings(v, i + 1)

ProseStrings(v) ==
  IF v.k = "lex" THEN TextNodeTexts(v.n)
  ELSE IF v.k \in {"obj", "arr"} THEN ProseEntryStrings(v, 1)
  ELSE <<>>

\* the strings the legacy fallback may replace in, in the order title,
\* hero.richText, content field, layout
LegacyStrings(d, contentField) ==
  <<d.title>> \o TextNodeTexts(d.hero) \o TextNodeTexts(DocField(d, contentField))
  \o ProseStrings(d.layout)

\* the top-level field that holds string i of LegacyStrings
LegacyFieldOf(d, contentField, i) ==
  IF i <= 1 THEN "title"
  ELSE IF i <= 1 + Len(TextNodeTexts(d.hero)) THEN "hero"
  ELSE IF i <= 1 + Len(TextNodeTexts(d.hero)) + Len(TextNodeTexts(DocField(d, contentField)))
    THEN contentField
  ELSE "layout"

\* the indices of the strings of LegacyStrings that contain original
Holding(d, contentField, original) ==
  {i \in 1..Len(LegacyStrings(d, contentField)) :
     Includes(LegacyStrings(d, contentField)[i], original)}

First(S) == CHOOSE i \in S : \A j \in S : i <= j

\* C11: the legacy fallback is used only for requests that supply no offset:
\* a request carrying a numeric offset and a numeric length is never
\* resolved by legacyFixSubstring.
C11_LegacyOnlyWithoutOffset ==
  (pc = "done" /\ req.offset # <<>> /\ req.length # <<>>)
  => ~(loc.legacyRan /\ loc.legacyResult.fixed)

\* C12: when the legacy fallback runs it goes through the title, then
\* hero.richText, then the content field, then the layout blocks in array
\* order; it replaces the first occurrence of original inside the first
\* string that contains it, reports the top-level field of that string, and
\* changes nothing else; when no string contains original it reports
\* fixed: false and changes nothing.
C12_LegacyFirstMatch ==
  (pc = "done" /\ loc.legacyRan)
  => LET d0   == loc.pathResult.doc
         d1   == loc.legacyResult.doc
         cf   == loc.contentField
         hold == Holding(d0, cf, req.original)
     IN  IF hold = {}
         THEN ~loc.legacyResult.fixed /\ d1 = d0
         ELSE /\ loc.legacyResult.fixed
              /\ loc.legacyResult.modifiedField = LegacyFieldOf(d0, cf, First(hold))
              /\ Len(LegacyStrings(d1, cf)) = Len(LegacyStrings(d0, cf))
              /\ \A i \in 1..Len(LegacyStrings(d0, cf)) :
                   LegacyStrings(d1, cf)[i]
                     = IF i = First(hold)
                       THEN ReplaceFirst(LegacyStrings(d0, cf)[i], req.original,
                                         req.replacement)
                       ELSE LegacyStrings(d0, cf)[i]
              /\ Cardinality(ChangedStrings(d0, d1)) = 1

\* C12 witness: original stands in strings of two top-level fields, the
\* title is not one of them, and the fallback replaced in the hero.
C12_Witness ==
  /\ pc = "done"
  /\ loc.legacyRan
  /\ loc.legacyResult.modifiedField = "hero"
  /\ \E i \in Holding(loc.pathResult.doc, loc.contentField, req.original) :
       LegacyFieldOf(loc.pathResult.doc, loc.contentField, i) \in {"content", "layout"}

\* ------------------------------------------------------------------------
\* Extraction on its own: malformed shapes, depth, round trip, walker
\* ------------------------------------------------------------------------

\* the node with every children value that cannot be iterated taken away
RECURSIVE RepairNode(_)
RepairNode(node) ==
  [node EXCEPT !.notIterable = FALSE,
               !.children = [i \in 1..Len(node.children) |-> RepairNode(node.children[i])],
               !.root = [i \in 1..Len(node.root) |-> RepairNode(node.root[i])]]

RECURSIVE RepairValue(_)
RepairValue(v) ==
  [v EXCEPT !.n = RepairNode(v.n),
            !.e = [i \in 1..Len(v.e) |-> Entry(v.e[i].key, RepairValue(v.e[i].val))]]

\* the document without its malformed parts: no children that cannot be
\* iterated, no scalar where rich text is expected
Repaired(d) ==
  [d EXCEPT !.hero = IF d.hero.kind = "scalar" THEN Nil ELSE RepairNode(d.hero),
            !.content = RepairNode(d.content),
            !.body = RepairNode(d.body),
            !.layout = RepairValue(d.layout)]

\* C13: extractAllTextFromDocWithSources never throws on a malformed shape
\* inside the document (children that are no array and cannot be iterated, a
\* scalar hero.richText, null entries in layout): it returns what it returns
\* for the document without the malformed parts.
C13_GracefulDegradation ==
  output # NoOutput
  => /\ ~output[1].threw
     /\ output[1] = Returned(extractAllTextFromDocWithSources(Repaired(input.doc),
                                                              input.contentField))

\* the node as a walk that stops below maxDepth sees it
RECURSIVE Prune(_, _, _)
Prune(node, depth, maxDepth) ==
  IF depth > maxDepth THEN Nil
  ELSE [node EXCEPT
          !.children = [i \in 1..Len(node.children) |->
                          Prune(node.children[i], depth + 1, maxDepth)],
          !.root = [i \in 1..Len(node.root) |-> Prune(node.root[i], depth + 1, maxDepth)]]

\* w(node): the text of a node, by cases on the node
RECURSIVE W(_), WItems(_, _)
WItems(items, i) ==
  IF i > Len(items) THEN <<>> ELSE W(items[i]) \o WItems(items, i + 1)

W(node) ==
  IF node.kind \notin {"obj", "arr"} THEN <<>>
  ELSE IF node.kind = "arr" THEN WItems(node.children, 1)
  ELSE IF node.type \in {"code", "code-block", "codeBlock"} THEN <<>>
  ELSE IF node.type = "text" THEN (IF node.hasText THEN node.text ELSE <<>>)
  ELSE IF node.type \in {"paragraph", "heading", "listitem"}
    THEN WItems(node.children, 1) \o <<"\n">>
  ELSE WItems(node.children, 1) \o WItems(node.root, 1)

\* C14: extraction returns without error on any input; a text node at a
\* depth greater than maxDepth contributes nothing to the text of its rich
\* text; the block traversal yields nothing from below depth 10 and yields
\* no source twice.
C14_DepthBound ==
  output # NoOutput
  => /\ ~output[1].threw
     /\ \A i \in 1..Len(output[1].segments) :
          LET seg == output[1].segments[i]
          IN  /\ seg.source.type = "lexical"
                 => seg.text = Trim(W(Prune(SourceData(input.doc, seg.source), 0,
                                            DefaultMaxDepth)))
              /\ seg.source.topField = "layout"
                 => Len(seg.source.path)
                      <= BlockMaxDepth + (IF seg.source.type = "lexical" THEN 2 ELSE 1)
              /\ \A j \in 1..Len(output[1].segments) :
                   output[1].segments[j].source = seg.source => j = i

\* the place of a segment in the traversal: title, hero.richText, content
\* field, layout blocks
Rank(source, contentField) ==
  IF source.type = "title" THEN 1
  ELSE IF source.topField = "hero" THEN 2
  ELSE IF source.topField = "layout" THEN 4
  ELSE IF source.topField = contentField THEN 3
  ELSE 0

\* C15: the fullText returned equals trim(join of the returned segments'
\* texts with "\n"), no returned segment has an empty text, and the segments
\* are in the order title, hero.richText, content field, layout blocks (the
\* blocks in the order of the layout).
C15_RoundTrip ==
  (output # NoOutput /\ ~output[1].threw)
  => LET segs == output[1].segments
     IN  /\ output[1].fullText = Trim(JoinNL([i \in 1..Len(segs) |-> segs[i].text]))
         /\ \A i \in 1..Len(segs) : segs[i].text # <<>>
         /\ \A i \in 1..Len(segs) : Rank(segs[i].source, input.contentField) # 0
         /\ \A i, j \in 1..Len(segs) :
              i < j => /\ Rank(segs[i].source, input.contentField)
                           <= Rank(segs[j].source, input.contentField)
                       /\ (segs[i].source.topField = "layout"
                             /\ segs[j].source.topField = "layout")
                           => segs[i].source.path[1] <= segs[j].source.path[1]

\* a document of which a segment was dropped and three were returned
C15_Witness ==
  /\ output # NoOutput
  /\ ~output[1].threw
  /\ Len(output[1].segments) >= 3
  /\ Len(rawSegmentsOf(input.doc, input.contentField)) > Len(output[1].segments)
  /\ output[1].fullText # <<>>

EndsAfterFirstPass(s) ==
  /\ scans[s].pc \in {"check", "sleep"}
  /\ scans'[s].pc = "done"

\* C17: whatever exceptions extracting, checking, filtering or storing a
\* document raised, a scan that found its documents ends with every one of
\* them processed, and it ends by writing status 'completed' and
\* totalDocuments, the number of documents iterated, into currentJob.
C17_FailureIsolation ==
  [][\A s \in 1..Len(scans) :
       EndsAfterFirstPass(s)
       => /\ scans'[s].end = "completed"
          /\ scans'[s].processed = Len(scans'[s].docs)
          /\ jobs'[currentJob'].status = "completed"
          /\ jobs'[currentJob'].totalDocuments = Len(scans'[s].docs)]_vars

\* a scan whose first document threw and whose second was stored has ended
C17_Witness ==
  \E s \in 1..Len(scans) :
    /\ scans[s].pc = "done"
    /\ scans[s].end = "completed"
    /\ scans[s].docs = <<"throws", "text">>
    /\ Len(scans[s].results) = 1
    /\ jobs[currentJob].status = "completed"
    /\ jobs[currentJob].totalDocuments = 2

\* the scans that await checkWithLanguageTool
Checking == {s \in 1..Len(scans) : scans[s].pc = "check"}

\* C18: between two consecutive calls of checkWithLanguageTool made by bulk
\* scanning at least RATE_LIMIT_DELAY has passed, and no two calls are
\* under way at once, whatever bulk POSTs were received.
C18_RateLimit ==
  /\ Len(calls) = 2 => calls[2] - calls[1] >= RATE_LIMIT_DELAY
  /\ Cardinality(Checking) <= 1

\* the job currentJob refers to is running and stale
Stale ==
  /\ currentJob # 0
  /\ jobs[currentJob].status = "running"
  /\ now - jobs[currentJob].lastActivity > STALE_TIMEOUT

TimedOut(job) == job.status = "error" /\ job.error = "Scan timed out (no progress)"

\* this step starts a scan and answers so
StartsScan ==
  /\ http' = Http("POST", 200, "Scan started")
  /\ Len(scans') = Len(scans) + 1
  /\ scans'[Len(scans')] = NewScan
  /\ currentJob' = Len(jobs) + 1
  /\ jobs'[currentJob'] = NewJob(now)

\* C19: the status GET or bulk POST of a user that finds the running job
\* stale sets it to 'error' with error 'Scan timed out (no progress)', the
\* POST starting a new scan at once; a bulk POST without force that finds
\* the job so reset starts a new scan; and no step writes that error into a
\* job that is not the running job with lastActivity more than
\* STALE_TIMEOUT ago.
C19_StaleRecovery ==
  [][/\ (Stale /\ StatusHandler(TRUE)) => TimedOut(jobs'[currentJob])
     /\ \A force \in BOOLEAN :
          (Stale /\ BulkHandler(TRUE, force)) => (TimedOut(jobs'[currentJob]) /\ StartsScan)
     /\ (currentJob # 0 /\ TimedOut(jobs[currentJob]) /\ BulkHandler(TRUE, FALSE))
        => StartsScan
     /\ \A j \in 1..Len(jobs) :
          (~TimedOut(jobs[j]) /\ TimedOut(jobs'[j])) => (j = currentJob /\ Stale)]_vars

\* a stale job was reset by a status GET, and a later POST started a scan
C19_Witness ==
  /\ Len(jobs) = 2
  /\ TimedOut(jobs[1])
  /\ currentJob = 2
  /\ jobs[2].status = "running"
  /\ http = Http("POST", 200, "Scan started")
  /\ jobs[2].startedAt - jobs[1].lastActivity > STALE_TIMEOUT

Guarded ==
  <<doc, updates, jobs, currentJob, scans, calls, records, dictionary,
    cachedWords, cacheTimestamp, invalidations, tasks>>

\* C21: a request without req.user to any of the eight endpoints (validate,
\* fix, bulk, status, dictionary GET, POST and DELETE, collections) is
\* answered 401, and the step that answers it reads no document (the fix
\* handler ends at its user check, no run starts), changes no job, scan or
\* cache and writes nothing to the database.
C21_AuthenticationFirst ==
  [][/\ (pc = "idle" /\ pc' = "done" /\ ~req'.user)
          => (resp'.status = 401 /\ loc'.stage = "unauthorized" /\ UNCHANGED Guarded)
     /\ ((\E force \in BOOLEAN : BulkHandler(FALSE, force)) \/ StatusHandler(FALSE))
          => (http'.status = 401 /\ UNCHANGED Guarded)
     /\ (wire' # wire /\ ~wire'.user)
          => (wire'.status = 401 /\ UNCHANGED Guarded)]_vars

\* requests without a user were answered 401 by the fix, the status or bulk
\* and a dictionary endpoint while a scan was stale and not reset
C21_Witness ==
  /\ pc = "done" /\ ~req.user /\ resp.status = 401
  /\ http.status = 401
  /\ currentJob # 0 /\ isJobStale(jobs, currentJob, now)
  /\ ~wire.user /\ wire.status = 401 /\ wire.path = "dictionary"

\* ------------------------------------------------------------------------
\* C22: ignored issues and rescans
\* ------------------------------------------------------------------------

\* run k stores its result in the existing document e with this step
StoresInto(k, e) == tasks[k].pc = "store" /\ tasks'[k].pc = "done" /\ tasks[k].existing = e

\* the scan of run k, which found document e with the ignoredIssues the run
\* holds, stores no issue ignored there
StoresNoIgnored(k, e) ==
  \A i \in 1..Len(records'[e].issues) : ~IsIgnored(records'[e].issues[i], tasks[k].ignoredIssues)

\* the step leaves every entry of the ignoredIssues of document e in place
KeepsIgnored(e) ==
  \A j \in 1..Len(records[e].ignoredIssues) : records[e].ignoredIssues[j] \in Range(records'[e].ignoredIssues)

ServedFromCache(k) == tasks[k].pc = "check" /\ tasks'[k].pc \notin {"check", "load"}

\* the loadDictionaryWords call of run k returns from its own payload.find
\* in this step
ServedFromDatabase(k) == tasks[k].pc = "loaded" /\ tasks'[k].pc # "loaded"

RECURSIVE IsSubList(_, _)
IsSubList(out, list) ==
  IF out = <<>> THEN TRUE
  ELSE IF list = <<>> THEN FALSE
  ELSE IF Head(out) = Head(list) THEN IsSubList(Tail(out), Tail(list))
  ELSE IsSubList(out, Tail(list))

\* original equals a word of customDictionary, letter case aside
InCustomDictionary(issue, config) ==
  \E i \in 1..Len(config.customDictionary) : toLowerCase(issue.original) = toLowerCase(config.customDictionary[i])

\* what the claim says the result never holds
Excluded(issue, config) ==
  \/ issue.isPremium
  \/ issue.ruleId \in DEFAULT_SKIP_RULES \cup config.skipRules
  \/ issue.category \in DEFAULT_SKIP_CATEGORIES \cup config.skipCategories
  \/ InCustomDictionary(issue, config)

\* the filters applied whatever the configuration: premium, default rules
\* and categories, the stored dictionary, single characters, patterns, a
\* first replacement equal to the original, a short context, a repetition
\* replaced by nothing
DefaultFilterMatches(issue, dbWords) ==
  \/ issue.isPremium
  \/ issue.ruleId \in DEFAULT_SKIP_RULES
  \/ issue.category \in DEFAULT_SKIP_CATEGORIES
  \/ issue.original # <<>> /\ \E i \in 1..Len(dbWords) : Includes(toLowerCase(issue.original), dbWords[i]) \/ Includes(dbWords[i], toLowerCase(issue.original))
  \/ issue.context # <<>> /\ \E i \in 1..Len(dbWords) : " " \in Range(dbWords[i]) /\ Includes(toLowerCase(issue.context), dbWords[i])
  \/ Len(issue.original) = 1 /\ issue.category # "GRAMMAR"
  \/ issue.original # <<>> /\ MatchesSkipPattern(issue.original)
  \/ issue.replacements # <<>> /\ issue.replacements[1] = issue.original
  \/ issue.context # <<>> /\ Len(Trim(issue.context)) < 5
  \/ (issue.ruleId \in RepetRules \/ issue.category = "CAT_REGLES_DE_BAS") /\ issue.replacements # <<>> /\ issue.replacements[1] = <<>>

CountedWithoutFix ==
  /\ output # NoOutput
  /\ input.fn = "fixInLexicalTree"
  /\ ~output[1].fix.fixed
  /\ ~Threw(output[1].text)

\* C25: for every rich-text tree and every targetOffset that falls in no
\* text node, the chars returned by fixInLexicalTree(node, targetOffset, ...,
\* 0) equals the length of extractRecursive(node, 0, 50) (and so for any
\* budget given to both), and the tree is left as it was.
C25_CountsAsExtracted ==
  CountedWithoutFix
  => /\ output[1].fix.chars = Len(output[1].text)
     /\ output[1].fix.node = input.node

\* ------------------------------------------------------------------------
\* Frame of an applied correction
\* ------------------------------------------------------------------------

\* what a source addresses in document d: the title, the rich-text subtree,
\* or the scalar field of a block
SourceValue(d, source) ==
  IF source.type = "title" THEN d.title
  ELSE IF source.type = "lexical" THEN SourceData(d, source)
  ELSE SourcePlain(d, source)

\* applyFixAtOffset returned fixed: true
AppliedAtOffset ==
  /\ output # NoOutput
  /\ input.fn = "applyFixAtOffset"
  /\ output[1].fixed

\* C26: a successful applyFixAtOffset makes one string assignment, inside
\* the source of the segment it dispatched to (one text node of one
\* rich-text subtree, the title, or one scalar field of a block); at most one
\* string of the document differs afterwards, and it differs exactly when
\* what that source addresses differs; what every other segment's source
\* addresses, and every top-level field other than the reported
\* modifiedField, is identical to what it was.
C26_Frame ==
  AppliedAtOffset
  => LET segments == extractAllTextFromDocWithSources(input.doc, "content").segments
         r        == output[1]
     IN  /\ r.seg \in 1..Len(segments)
         /\ r.writes = 1
         /\ Len(AllStrings(r.doc)) = Len(AllStrings(input.doc))
         /\ Cardinality(ChangedStrings(input.doc, r.doc))
              = IF SourceValue(r.doc, segments[r.seg].source)
                     = SourceValue(input.doc, segments[r.seg].source)
                THEN 0 ELSE 1
         /\ \A j \in 1..Len(segments) :
              j # r.seg
              => SourceValue(r.doc, segments[j].source)
                   = SourceValue(input.doc, segments[j].source)
         /\ \A f \in TopFields : f # r.modifiedField => r.doc[f] = input.doc[f]
         /\ r.doc.id = input.doc.id

\* a fix inside the content of a document that has a title, a hero and
\* layout blocks with segments of their own
C26_Witness ==
  /\ AppliedAtOffset
  /\ output[1].modifiedField = "content"
  /\ input.doc.title # <<>>
  /\ Cardinality(ChangedStrings(input.doc, output[1].doc)) = 1
  /\ \E i \in 1..Len(extractAllTextFromDocWithSources(input.doc, "content").segments) :
       extractAllTextFromDocWithSources(input.doc, "content").segments[i].source.topField
         = "layout"

\* ------------------------------------------------------------------------
\* The bulk scan: one loop at a time, and the jobs it writes
\* ------------------------------------------------------------------------

\* the invocations of runBulkScan that have not returned: they await the
\* first pass, the checking service or the end of their sleep
Active == {s \in 1..Len(scans) : scans[s].pc # "done"}

\* C27: at most one invocation of runBulkScan is active at any time,
\* whatever bulk POSTs (with or without force), status GETs and stale
\* resets took place.
C27_OneScanLoop == Cardinality(Active) <= 1

Terminal(job) == job.status \in {"completed", "error"}

\* status, error and the progress counters of a job
JobProgress(job) ==
  <<job.status, job.error, job.current, job.total, job.totalIssues, job.totalDocuments>>

\* scan s takes a step
ScanSteps(s) == scans'[s] # scans[s]

\* C28: once a job is 'completed' or 'error' no later step changes its
\* status, error or progress counters; a step of scan s changes no job
\* other than the one created together with it; and current <= total
\* whenever the total of a job has been set.
C28_TerminalStable ==
  [][/\ \A j \in 1..Len(jobs) :
          Terminal(jobs[j]) => JobProgress(jobs'[j]) = JobProgress(jobs[j])
     /\ \A s \in 1..Len(scans) : \A j \in 1..Len(jobs) :
          (ScanSteps(s) /\ j # s) => jobs'[j] = jobs[j]
     /\ \A j \in 1..Len(jobs') :
          jobs'[j].total > 0 => jobs'[j].current <= jobs'[j].total]_vars

\* ------------------------------------------------------------------------
\* A fix and the strings extraction left out
\* ------------------------------------------------------------------------

\* extractRecursive visits the node at this depth, reached or not
VisitedNode(node, depth, maxDepth, reached) ==
  /\ reached
  /\ depth <= maxDepth
  /\ node.kind \in {"obj", "arr"}
  /\ ~(node.kind = "obj" /\ node.type \in SKIP_TYPES)

\* For every text of NodeTexts(node), in that order: whether extractRecursive
\* appends it (the node is a text node the walk visits).
RECURSIVE NodeMask(_, _, _, _), NodeListMask(_, _, _, _, _)
NodeListMask(items, i, depth, maxDepth, reached) ==
  IF i > Len(items) THEN <<>>
  ELSE NodeMask(items[i], depth, maxDepth, reached)
       \o NodeListMask(items, i + 1, depth, maxDepth, reached)

NodeMask(node, depth, maxDepth, reached) ==
  IF node.kind = "nil" THEN <<>>
  ELSE (IF node.hasText
        THEN <<VisitedNode(node, depth, maxDepth, reached) /\ node.type = "text">>
        ELSE <<>>)
       \o NodeListMask(node.children, 1, depth + 1, maxDepth,
                       VisitedNode(node, depth, maxDepth, reached))
       \o (IF node.root # <<>>
           THEN NodeMask(node.root[1], depth + 1, maxDepth,
                         VisitedNode(node, depth, maxDepth, reached)
                           /\ node.type \notin BlockTypes)
           ELSE <<>>)

\* For every string of ValueStrings(v), in that order: whether
\* extractBlockSegments takes it into a segment, v being the value of key in
\* an object or array the traversal reached or not.
RECURSIVE ValueMask(_, _, _, _), EntryMask(_, _, _, _)
EntryMask(v, i, depth, reached) ==
  IF i > Len(v.e) THEN <<>>
  ELSE ValueMask(v.e[i].val, v.e[i].key, depth + 1,
                 reached /\ (v.k = "arr" \/ v.e[i].key \notin SKIP_KEYS))
       \o EntryMask(v, i + 1, depth, reached)

ValueMask(v, key, depth, reached) ==
  IF v.k = "str" THEN <<reached /\ IsPlainText(key, v)>>
  ELSE IF v.k = "lex"
    THEN NodeMask(v.n, 0, DefaultMaxDepth, reached /\ key # "" /\ isLexicalJson(v.n))
  ELSE IF v.k \in {"obj", "arr"}
    THEN EntryMask(v, 1, depth, reached /\ depth <= BlockMaxDepth)
  ELSE <<>>

\* the blocks of doc.layout, each at depth 0
RECURSIVE LayoutMask(_, _)
LayoutMask(layout, i) ==
  IF i > Len(layout.e) THEN <<>>
  ELSE ValueMask(layout.e[i].val, "", 0, layout.k = "arr") \o LayoutMask(layout, i + 1)

\* For every string of AllStrings(d), in that order: whether extraction
\* with this content field took it into a segment.
ExtractedMask(d, contentField) ==
  <<d.title # <<>>>>
  \o NodeMask(d.hero, 0, DefaultMaxDepth, TRUE)
  \o NodeMask(d.content, 0, DefaultMaxDepth,
              contentField = "content" /\ isLexicalJson(d.content))
  \o NodeMask(d.body, 0, DefaultMaxDepth, contentField = "body" /\ isLexicalJson(d.body))
  \o LayoutMask(d.layout, 1)

\* C29: no path of the fix handler changes a string that extraction left
\* out: every string of the document that differs after the request is one
\* extraction took into a segment (no field under a SKIP_KEYS key, no block
\* string rejected by the length or pattern guards, no text inside a skipped
\* node or below the depth limits).
C29_OnlyExtractedText ==
  pc = "done"
  => \A i \in ChangedStrings(before, loc.result.doc) :
       ExtractedMask(before, loc.contentField)[i]

\* ------------------------------------------------------------------------
\* One stored result per document
\* ------------------------------------------------------------------------

\* C30: after any interleaving of validate requests, hook checks and
\* bulk-scan steps, spellcheck-results holds at most one record for a
\* (docId, collection) pair.
C30_OneRecordPerDocument ==
  \A i, j \in 1..Len(records) :
    (records[i].docId = records[j].docId /\ records[i].collection = records[j].collection)
    => i = j

====
